---- MODULE Spec2Model ----
(***************************************************************************)
(* A model of flowy's Amazon SWF decider (flowy/backend/swf.py): the       *)
(* history projector parse_events, the decision context SWFContext, the    *)
(* activity / sub-workflow proxies that schedule through it, the worker    *)
(* loop with its pager (poll_next_decision, poll_first_page,               *)
(* poll_response_page, events), the registration of the workflow types and *)
(* the size caps of what is handed to the service.                         *)
(*                                                                         *)
(* Python strings are sequences of one-character strings, so that the key  *)
(* conversions (_timer_key, _subworkflow_key, _subworkflow_call_key), the  *)
(* value conversions (_timer_encode, upper) and the slices are computed,   *)
(* not assumed.  Python's None is the value None below, which is no        *)
(* string: its only element is not a single character.                     *)
(***************************************************************************)
EXTENDS Integers, Sequences, FiniteSets, TLC

VARIABLES
    \* ---- parse_events: its locals, one loop iteration per step
    running, timedout, results, errors, order, event2call,
    e,            \* the event of the current loop iteration
    id,           \* the loop's local `id`
    eventId,      \* the eventId of the last event taken from the history
    perr,         \* the exception that ended parse_events, or "none"
    everRunning,  \* history variable: every key ever added to running
    \* ---- SWFContext
    decisions, closed, child_policy,
    issued,       \* history variable: the schedule_* calls made on the context
    sent,         \* the calls of layer1.respond_decision_task_completed so far
    raised,       \* the exception the last call let through to its caller
    call,         \* the last call made on the context, and whether it was closed then
    \* ---- a workflow run over one decision task, and its replay
    script, pc, run,
    \* ---- start_swf_workflow_worker, poll_next_decision and the pager
    wpc,          \* where the worker is
    page,         \* the page the events generator reads: swf_response / page
    fetch,        \* poll_response_page's loop: failed turns, and how it ended
    pages,        \* the pages of the current task received so far
    tasks,        \* the calls of poll_next_decision so far
    polls,        \* the polls the running poll_first_page has made
    poll_args,    \* <<domain, task_list>> of the running poll_next_decision
    wexc,         \* the exception that left the worker loop, or "none"
    ctx_key,      \* (name, version) of the first event
    \* ---- registration
    todo,         \* the workflows of the registry still to register
    reg,          \* history variable: the last register_remote call
    exit_code,    \* the status the process exited with, or -1 while it runs
    \* ---- size caps
    identity,     \* the worker's identity after start_swf_workflow_worker
    started,      \* the calls of layer1.start_workflow_execution so far
    arg,          \* history variable: the payload handed to the last call
    \* ---- the sub-workflow key round trip
    rt,
    \* ---- the context blob round trip (flowy/swf.py)
    blob,
    \* ---- Client, SWFClient and Decision (flowy/swf.py)
    _workflow_registry,     \* Client: (name, version) -> decision maker
    _scheduled_activities,  \* SWFClient: the three queues
    _scheduled_workflows,
    _scheduled_timers,
    execution,    \* the service's side: the workflow execution being decided
    decision,     \* the Decision handed to the running decision maker
    responded,    \* the last respond_decision_task_completed of this dispatch
    returned,     \* what the last call on Client or Decision returned
    accepted,     \* history variable: the keys the service took or matched
    queued,       \* history variable: the queue_* calls since schedule_queued
    handled,      \* history variable: the tokens a decision maker was called for
    \* ---- SWFClient.poll_decision and the decision rounds (flowy/swf.py)
    poller,       \* the running call of _repeated_poller
    dpoll,        \* the running call of Client.dispatch_next_decision
    dresp,        \* a _DecisionCollapsed and what _decision_response made of it
    dround        \* the Decision of one round and the context it hands on

projVars == <<running, timedout, results, errors, order, event2call, e, id,
              eventId, perr, everRunning>>
ctxVars == <<decisions, closed, child_policy, sent, raised, call, issued>>
runVars == <<script, pc, run>>
loopVars == <<wpc, fetch, pages, tasks, polls, poll_args, wexc, ctx_key>>
workerVars == <<page, loopVars>>
regVars == <<todo, reg, exit_code>>
sizeVars == <<identity, started, arg>>
keyVars == <<rt, blob>>
clientVars == <<_workflow_registry, _scheduled_activities,
                _scheduled_workflows, _scheduled_timers, execution, decision,
                responded, returned, accepted, queued, handled>>
pollVars == <<poller, dpoll, dresp, dround>>
envVars == <<regVars, sizeVars, keyVars, clientVars, pollVars>>
vars == <<projVars, ctxVars, runVars, workerVars, envVars>>

-----------------------------------------------------------------------------
(* Bounds *)

MaxEvents == 4      \* events of one history after WorkflowExecutionStarted
MaxCalls == 3       \* calls made on one context
MaxScript == 2      \* proxy calls of one workflow run
MaxPages == 2       \* pages of one decision task's history
MaxTasks == 2       \* calls of poll_next_decision by one worker
MaxPolls == 2       \* polls of one poll_first_page that bring no task
MaxWorkflows == 2   \* workflows of the registry
MaxKeyLen == 3      \* characters of a call-key
MaxStrLen == 2      \* characters of each part of a context blob
MaxDecisions == 3   \* decision tasks the service hands to the Client
MaxQueued == 2      \* entries waiting in the queues of the SWFClient
MaxRetries == 2     \* the largest retry budget _repeated_poller is called with
MaxAttempts == 4    \* polls of one _repeated_poller that never gives up
MaxHistory == 3     \* recognised events after WorkflowExecutionStarted
MaxRounds == 3      \* decision rounds of one workflow execution

-----------------------------------------------------------------------------
(* Strings *)

None == <<"None">>
NameError == "NameError"
KeyError == "KeyError"
ValueError == "ValueError"
SWFResponseError == "SWFResponseError"

CallKeys == {<<"0">>, <<"1">>}
UUIDs == {<<"a", "-", "b">>, <<"c", "-", "d">>}
Results == {<<"1", "4">>}
Reasons == {<<"b", "o", "o", "m">>}
Causes == {<<"D", "N", "E">>}
Delays == {0, 5}

Min(a, b) == IF a < b THEN a ELSE b

\* s[-n:] in place of s[:n]
Truncate_tail(s, n) == SubSeq(s, Len(s) - Min(n, Len(s)) + 1, Len(s))

\* s[:n]
Truncate(s, n) == SubSeq(s, 1, Min(n, Len(s)))

\* str(n) for the small non-negative integers of the model
Digit(n) == CASE n = 0 -> "0" [] n = 1 -> "1" [] n = 2 -> "2" [] n = 3 -> "3"
              [] n = 4 -> "4" [] n = 5 -> "5" [] n = 6 -> "6" [] n = 7 -> "7"
              [] n = 8 -> "8" [] n = 9 -> "9"

RECURSIVE str(_)
str(n) == IF n < 10 THEN <<Digit(n)>> ELSE str(n \div 10) \o <<Digit(n % 10)>>

_timer_key(call_key) == call_key \o <<":", "t">>

\* The body reads timer_id, a name bound nowhere: every call raises NameError.
_timer_call_key(timer_key) == NameError

_subworkflow_key(uuid4, call_key) == uuid4 \o <<"-">> \o call_key

\* subworkflow_key.split('-')[-1]: what follows the last '-'
RECURSIVE _subworkflow_call_key(_)
_subworkflow_call_key(subworkflow_key) ==
    LET n == Len(subworkflow_key)
    IN  IF n = 0 THEN <<>>
        ELSE IF subworkflow_key[n] = "-" THEN <<>>
        ELSE _subworkflow_call_key(SubSeq(subworkflow_key, 1, n - 1))
                 \o <<subworkflow_key[n]>>

WorkflowIds == {_subworkflow_key(u, k) : u \in UUIDs, k \in CallKeys}
TimerIds == {_timer_key(k) : k \in CallKeys}

Keys(f) == DOMAIN f

-----------------------------------------------------------------------------
(* parse_events *)

Event(type, name, sid, payload) ==
    [eventType |-> type, eventId |-> eventId + 1, name |-> name,
     scheduledEventId |-> sid, payload |-> payload]

NoEvent == [eventType |-> "none", eventId |-> 0, name |-> None,
            scheduledEventId |-> 0, payload |-> None]

ProjInit ==
    /\ running = {} /\ timedout = {}
    /\ results = <<>> /\ errors = <<>>
    /\ order = <<>>
    /\ event2call = <<>>
    /\ e = NoEvent
    /\ id = None
    /\ eventId = 1      \* WorkflowExecutionStarted was taken by poll_next_decision
    /\ perr = "none"
    /\ everRunning = {}

\* events(): `for event in page['events']: yield event`, one event.  size,
\* before and yielded are the history fields of Response below.
events_yield(p) ==
    [p EXCEPT !.events = @ - 1,
              !.yielded = Append(@, <<Len(p.before) + 1,
                                      p.size - p.events + 1>>)]

\* The loop takes the next event: the generator yields it from its page.
Take(ev) ==
    /\ perr = "none"
    /\ wpc = "parse"
    /\ page.events > 0
    /\ page' = events_yield(page)
    /\ e' = ev
    /\ eventId' = eventId + 1
    /\ UNCHANGED <<ctxVars, runVars, loopVars, envVars>>

\* An exception leaves parse_events: nothing is returned.
Raise(exc) ==
    /\ perr' = exc
    /\ UNCHANGED <<running, timedout, results, errors, order, event2call,
                   everRunning>>

\* running.remove(k); results[k] = result; order.append(k)
Complete(k, result) ==
    IF k \notin running THEN Raise(KeyError)
    ELSE /\ running' = running \ {k}
         /\ results' = (k :> result) @@ results
         /\ order' = Append(order, k)
         /\ UNCHANGED <<timedout, errors, event2call, everRunning, perr>>

\* Failed with running.discard(k) in place of running.remove(k)
Failed_unchecked(k, reason) ==
    /\ running' = running \ {k}
    /\ errors' = (k :> reason) @@ errors
    /\ order' = Append(order, k)
    /\ UNCHANGED <<timedout, results, event2call, everRunning, perr>>

\* running.remove(k); errors[k] = reason; order.append(k)
Failed(k, reason) ==
    IF k \notin running THEN Raise(KeyError)
    ELSE /\ running' = running \ {k}
         /\ errors' = (k :> reason) @@ errors
         /\ order' = Append(order, k)
         /\ UNCHANGED <<timedout, results, event2call, everRunning, perr>>

\* TimedOut with order.insert(0, k) in place of order.append(k)
TimedOut_front(k) ==
    IF k \notin running THEN Raise(KeyError)
    ELSE /\ running' = running \ {k}
         /\ timedout' = timedout \cup {k}
         /\ order' = <<k>> \o order
         /\ UNCHANGED <<results, errors, event2call, everRunning, perr>>

\* running.remove(k); timedout.add(k); order.append(k)
TimedOut(k) ==
    IF k \notin running THEN Raise(KeyError)
    ELSE /\ running' = running \ {k}
         /\ timedout' = timedout \cup {k}
         /\ order' = Append(order, k)
         /\ UNCHANGED <<results, errors, event2call, everRunning, perr>>

\* Rejected with a running.discard(k) added
Rejected_discarding(k, cause) ==
    /\ errors' = (k :> cause) @@ errors
    /\ order' = Append(order, k)
    /\ running' = running \ {k}
    /\ UNCHANGED <<timedout, results, event2call, everRunning, perr>>

\* errors[k] = cause; order.append(k): the task was never started
Rejected(k, cause) ==
    /\ errors' = (k :> cause) @@ errors
    /\ order' = Append(order, k)
    /\ UNCHANGED <<running, timedout, results, event2call, everRunning, perr>>

\* The scheduledEventId values a history can carry: the recorded ones and one
\* that no ActivityTaskScheduled event recorded.
ScheduledIds == DOMAIN event2call \cup {0}

ActivityTaskScheduled ==
    \E k \in CallKeys :
        /\ Take(Event("ActivityTaskScheduled", k, 0, None))
        /\ id' = k
        /\ event2call' = (eventId + 1 :> k) @@ event2call
        /\ running' = running \cup {k}
        /\ everRunning' = everRunning \cup {k}
        /\ UNCHANGED <<timedout, results, errors, order, perr>>

ActivityTaskCompleted ==
    \E sid \in ScheduledIds, result \in Results :
        /\ Take(Event("ActivityTaskCompleted", None, sid, result))
        /\ IF sid \notin DOMAIN event2call
           THEN Raise(KeyError) /\ UNCHANGED id
           ELSE id' = event2call[sid] /\ Complete(event2call[sid], result)

ActivityTaskFailed ==
    \E sid \in ScheduledIds, reason \in Reasons :
        /\ Take(Event("ActivityTaskFailed", None, sid, reason))
        /\ IF sid \notin DOMAIN event2call
           THEN Raise(KeyError) /\ UNCHANGED id
           ELSE id' = event2call[sid] /\ Failed(event2call[sid], reason)

ActivityTaskTimedOut ==
    \E sid \in ScheduledIds :
        /\ Take(Event("ActivityTaskTimedOut", None, sid, None))
        /\ IF sid \notin DOMAIN event2call
           THEN Raise(KeyError) /\ UNCHANGED id
           ELSE id' = event2call[sid] /\ TimedOut(event2call[sid])

ScheduleActivityTaskFailed ==
    \E k \in CallKeys, cause \in Causes :
        /\ Take(Event("ScheduleActivityTaskFailed", k, 0, cause))
        /\ id' = k
        /\ Rejected(k, cause)

StartChildWorkflowExecutionInitiated ==
    \E w \in WorkflowIds :
        /\ Take(Event("StartChildWorkflowExecutionInitiated", w, 0, None))
        /\ id' = _subworkflow_call_key(w)
        /\ running' = running \cup {_subworkflow_call_key(w)}
        /\ everRunning' = everRunning \cup {_subworkflow_call_key(w)}
        /\ UNCHANGED <<timedout, results, errors, order, event2call, perr>>

ChildWorkflowExecutionCompleted ==
    \E w \in WorkflowIds, result \in Results :
        /\ Take(Event("ChildWorkflowExecutionCompleted", w, 0, result))
        /\ id' = _subworkflow_call_key(w)
        /\ Complete(_subworkflow_call_key(w), result)

ChildWorkflowExecutionFailed ==
    \E w \in WorkflowIds, reason \in Reasons :
        /\ Take(Event("ChildWorkflowExecutionFailed", w, 0, reason))
        /\ id' = _subworkflow_call_key(w)
        /\ Failed(_subworkflow_call_key(w), reason)

ChildWorkflowExecutionTimedOut ==
    \E w \in WorkflowIds :
        /\ Take(Event("ChildWorkflowExecutionTimedOut", w, 0, None))
        /\ id' = _subworkflow_call_key(w)
        /\ TimedOut(_subworkflow_call_key(w))

StartChildWorkflowExecutionFailed ==
    \E w \in WorkflowIds, cause \in Causes :
        /\ Take(Event("StartChildWorkflowExecutionFailed", w, 0, cause))
        /\ id' = _subworkflow_call_key(w)
        /\ Rejected(_subworkflow_call_key(w), cause)

\* running.add(_timer_call_key(id)): the call raises before anything is added
TimerStarted ==
    \E t \in TimerIds :
        /\ Take(Event("TimerStarted", t, 0, None))
        /\ id' = t
        /\ IF _timer_call_key(t) = NameError
           THEN Raise(NameError)
           ELSE /\ running' = running \cup {_timer_call_key(t)}
                /\ everRunning' = everRunning \cup {_timer_call_key(t)}
                /\ UNCHANGED <<timedout, results, errors, order, event2call,
                               perr>>

\* running.remove(_timer_call_key(id)); results[id] = None
TimerFired ==
    \E t \in TimerIds :
        /\ Take(Event("TimerFired", t, 0, None))
        /\ id' = t
        /\ IF _timer_call_key(t) = NameError
           THEN Raise(NameError)
           ELSE IF _timer_call_key(t) \notin running
           THEN Raise(KeyError)
           ELSE /\ running' = running \ {_timer_call_key(t)}
                /\ results' = (t :> None) @@ results
                /\ UNCHANGED <<timedout, errors, order, event2call,
                               everRunning, perr>>

\* Any other event type matches no branch of the loop.
OtherEvent ==
    /\ Take(Event("DecisionTaskScheduled", None, 0, None))
    /\ UNCHANGED <<running, timedout, results, errors, order, event2call,
                   id, perr, everRunning>>

parse_events ==
    \/ ActivityTaskScheduled
    \/ ActivityTaskCompleted
    \/ ActivityTaskFailed
    \/ ActivityTaskTimedOut
    \/ ScheduleActivityTaskFailed
    \/ StartChildWorkflowExecutionInitiated
    \/ ChildWorkflowExecutionCompleted
    \/ ChildWorkflowExecutionFailed
    \/ ChildWorkflowExecutionTimedOut
    \/ StartChildWorkflowExecutionFailed
    \/ TimerStarted
    \/ TimerFired
    \/ OtherEvent

-----------------------------------------------------------------------------
(* SWFContext *)

_REASON_SIZE == 256
_INPUT_SIZE == 32768
_RESULT_SIZE == 32768
_IDENTITY_SIZE == 256

TERMINATE == <<"T", "E", "R", "M", "I", "N", "A", "T", "E">>
REQUEST_CANCEL == <<"R", "E", "Q", "U", "E", "S", "T", "_", "C", "A", "N", "C",
                    "E", "L">>
ABANDON == <<"A", "B", "A", "N", "D", "O", "N">>
_CHILD_POLICY == {TERMINATE, REQUEST_CANCEL, ABANDON, None}

\* The child policies a context is built with: two the service reports, and one
\* in lower case, which only a caller of the constructor can hand in.
ChildPolicies == {TERMINATE, ABANDON, <<"a", "b", "a", "n", "d", "o", "n">>}

Token == <<"t", "o", "k">>
Inputs == {<<"[", "]">>}

\* The proxies' configured targets
ActivityName == <<"A">>
WorkflowName == <<"W">>
Version == <<"1">>

_str_or_none(val) == IF val = None THEN None ELSE val

\* One entry of Layer1Decisions._data
Layer1Decision(type, name, version, ident, payload, timeout, policy) ==
    [decisionType |-> type, name |-> name, version |-> version, id |-> ident,
     payload |-> payload, timeout |-> timeout, childPolicy |-> policy]

SWFContext_init ==
    /\ decisions = <<>>
    /\ closed = FALSE

CtxInit ==
    /\ SWFContext_init
    /\ child_policy \in ChildPolicies
    /\ sent = <<>>
    /\ raised = "none"
    /\ call = [op |-> "none", n |-> 0, wasClosed |-> FALSE, key |-> None,
               delay |-> 0, before |-> <<>>]
    /\ issued = <<>>

\* A response of poll_for_decision_task as the events generator holds it:
\* events counts the events of page['events'] not yielded yet, size the
\* events the page came with.  before (the sizes of the task's earlier
\* pages) and yielded (the <<page, index>> of every event the generator has
\* handed out for the task) are history.
Response(tok, n, next) ==
    [taskToken |-> tok, events |-> n, nextPageToken |-> next, size |-> n,
     before |-> <<>>, yielded |-> <<>>]

\* events(): page = poll_response_page(...), r being the response
events_turn(p, r) ==
    [r EXCEPT !.before = Append(p.before, p.size), !.yielded = p.yielded]

Domain == <<"D">>
TaskList == <<"T", "L">>

NoFetch == [failed |-> 0, outcome |-> "none"]

\* The worker at position pos of its first task, whose history came in one
\* page of which n events are left.
WorkerAt(pos, n) ==
    /\ wpc = pos
    /\ page = Response(Token, n, FALSE)
    /\ fetch = NoFetch
    /\ pages = 1
    /\ tasks = 1
    /\ polls = 1
    /\ poll_args = <<Domain, TaskList>>
    /\ wexc = "none"
    /\ ctx_key = <<WorkflowName, Version>>

NoReg == [cfg |-> None, answer |-> "none", described |-> FALSE,
          remote |-> None, fault |-> "none", outcome |-> "none"]

RegInit ==
    /\ todo = 0
    /\ reg = NoReg
    /\ exit_code = -1

SizeInit ==
    /\ identity = None
    /\ started = <<>>
    /\ arg = None

NoRoundTrip == [step |-> "none", call_key |-> None, key |-> None,
                back |-> None]

NoBlob == [step |-> "none", str1 |-> None, str2 |-> None, s |-> None,
           out |-> <<None, None>>]

\* No decision task is in hand.
NoDecision ==
    [token |-> 0, maker |-> "none", _input |-> None, _context |-> None,
     _global_context |-> None, _workflow_to_call_id |-> <<>>, calls |-> 0,
     responds |-> 0, answered |-> FALSE, expected |-> None]

\* No workflow execution is open; tasks counts the decision tasks handed out.
\* global, setby and kept are history fields: the last context a
\* schedule_queued that went through was given, the token of its task, and
\* whether a schedule_queued without context went through since.
NoExecution ==
    [key |-> <<None, None>>, input |-> None, context |-> None, open |-> FALSE,
     tasks |-> 0, global |-> None, setby |-> 0, kept |-> FALSE]

NoRespond ==
    [op |-> "none", task_token |-> 0, decisions |-> <<>>,
     execution_context |-> None, ok |-> FALSE]

NoReturn == [op |-> "none", value |-> "none", text |-> None, since |-> <<>>]

\* Client.__init__ and SWFClient.__init__
ClientInit ==
    /\ _workflow_registry = <<>>
    /\ _scheduled_activities = <<>>
    /\ _scheduled_workflows = <<>>
    /\ _scheduled_timers = <<>>
    /\ execution = NoExecution
    /\ decision = NoDecision
    /\ responded = NoRespond
    /\ returned = NoReturn
    /\ accepted = {}
    /\ queued = <<>>
    /\ handled = {}

KeyInit == rt = NoRoundTrip /\ blob = NoBlob

\* No call of _repeated_poller, of dispatch_next_decision or of
\* _decision_response has been made, and no Decision was created.
NoPoller == [pc |-> "idle", budget |-> 0, retries |-> 0, response |-> "{}",
             outcomes |-> <<>>, result |-> "none"]
NoPoll == [pc |-> "idle", raw |-> <<>>, size |-> 1, last_event_id |-> 0,
           fetched |-> 0, events |-> <<>>, cut |-> FALSE, raises |-> "none",
           returned |-> "none", called |-> FALSE, responded |-> FALSE]
NoResp == [pc |-> "idle"]
NoActivity == [state |-> "none", e |-> 0, c |-> None]
NoRound == [pc |-> "idle", rounds |-> 0, input |-> None, context |-> None,
            activity |-> NoActivity, next_id |-> 2, persisted |-> {},
            written |-> <<<<>>, None>>, restored |-> <<<<>>, None>>,
            _input |-> None, _event_to_call_id |-> <<>>,
            _global_context |-> None, new_events |-> <<>>,
            queued |-> FALSE, dispatched |-> <<>>, raises |-> "none"]

PollInit ==
    /\ poller = NoPoller
    /\ dpoll = NoPoll
    /\ dresp = NoResp
    /\ dround = NoRound

EnvInit == RegInit /\ SizeInit /\ KeyInit /\ ClientInit /\ PollInit

\* flush without the test of closed
flush_twice(d) ==
    /\ closed' = TRUE
    /\ \E ok \in BOOLEAN :
           sent' = Append(sent, [task_token |-> Token, decisions |-> d,
                                 ok |-> ok])
    /\ raised' = "none" /\ UNCHANGED issued

\* flush that marks the context closed only when the service answered
flush_reopen(d) ==
    IF closed
    THEN UNCHANGED <<closed, sent, issued>> /\ raised' = "none"
    ELSE \E ok \in BOOLEAN :
             /\ closed' = ok
             /\ sent' = Append(sent, [task_token |-> Token, decisions |-> d,
                                      ok |-> ok])
             /\ raised' = "none" /\ UNCHANGED issued

\* d is self.decisions. respond_decision_task_completed answers or raises
\* SWFResponseError (ok = FALSE); the error is logged and dropped.
flush(d) ==
    IF closed
    THEN UNCHANGED <<closed, sent, issued>> /\ raised' = "none"
    ELSE /\ closed' = TRUE
         /\ \E ok \in BOOLEAN :
                sent' = Append(sent, [task_token |-> Token, decisions |-> d,
                                      ok |-> ok])
         /\ raised' = "none" /\ UNCHANGED issued

\* fail that appends to the accumulated decisions
fail_keep(reason) ==
    /\ decisions' = Append(decisions,
           Layer1Decision("FailWorkflowExecution", None, None, None,
                    Truncate(reason, _REASON_SIZE), None, None))
    /\ flush(decisions')

fail(reason) ==
    /\ decisions' = <<Layer1Decision("FailWorkflowExecution", None, None, None,
                               Truncate(reason, _REASON_SIZE), None, None)>>
    /\ flush(decisions')

restart(input) ==
    IF _str_or_none(child_policy) \notin _CHILD_POLICY
    THEN /\ decisions' = <<>>
         /\ raised' = ValueError
         /\ issued' = Append(issued, [op |-> "restart", key |-> None])
         /\ UNCHANGED <<closed, sent>>
    ELSE /\ decisions' = <<Layer1Decision("ContinueAsNewWorkflowExecution", None,
                                    None, None, Truncate(input, _INPUT_SIZE),
                                    None, _str_or_none(child_policy))>>
         /\ flush(decisions')

\* finish that responds without going through the test of closed
finish_direct(result) ==
    /\ decisions' = <<Layer1Decision("CompleteWorkflowExecution", None, None, None,
                               Truncate(result, _RESULT_SIZE), None, None)>>
    /\ flush_twice(decisions')

finish(result) ==
    /\ decisions' = <<Layer1Decision("CompleteWorkflowExecution", None, None, None,
                               Truncate(result, _RESULT_SIZE), None, None)>>
    /\ flush(decisions')

schedule_timer(call_key, delay) ==
    /\ decisions' = Append(decisions,
           Layer1Decision("StartTimer", None, None, _timer_key(call_key), None,
                    str(delay), None))
    /\ raised' = "none"
    /\ issued' = Append(issued, [op |-> "schedule_timer", key |-> call_key])
    /\ UNCHANGED <<closed, sent>>

\* schedule_activity that puts its decision in front of the accumulated ones
schedule_activity_first(call_key, name, version, input) ==
    /\ decisions' = <<Layer1Decision("ScheduleActivityTask", name, version,
                                     call_key, input, None, None)>>
                     \o decisions
    /\ raised' = "none"
    /\ issued' = Append(issued, [op |-> "schedule_activity", key |-> call_key])
    /\ UNCHANGED <<closed, sent>>

schedule_activity(call_key, name, version, input) ==
    /\ decisions' = Append(decisions,
           Layer1Decision("ScheduleActivityTask", name, version, call_key, input,
                    None, None))
    /\ raised' = "none"
    /\ issued' = Append(issued, [op |-> "schedule_activity", key |-> call_key])
    /\ UNCHANGED <<closed, sent>>

\* uuid.uuid4() draws a fresh random identifier on every call.
schedule_workflow(call_key, name, version, input) ==
    /\ \E uuid4 \in UUIDs :
           decisions' = Append(decisions,
               Layer1Decision("StartChildWorkflowExecution", name, version,
                        _subworkflow_key(uuid4, call_key), input, None, None))
    /\ raised' = "none"
    /\ issued' = Append(issued, [op |-> "schedule_workflow", key |-> call_key])
    /\ UNCHANGED <<closed, sent>>

\* `str(call_key) in results` reads results, a name bound nowhere (the
\* projected map is self.results): every call raises NameError.
timer_ready(call_key) == NameError

\* self.order.index(call_key) raises ValueError: call_key is not in order
order_index_raises(call_key) == \A i \in DOMAIN order : order[i] # call_key

\* self.order.index(call_key): the first position of call_key, from 0
order_index(call_key) ==
    (CHOOSE i \in DOMAIN order :
        order[i] = call_key /\ \A j \in 1..(i - 1) : order[j] # call_key) - 1

is_result(call_key) == call_key \in DOMAIN results
is_error(call_key) == call_key \in DOMAIN errors
is_timeout(call_key) == call_key \in timedout

\* result(call_key): where it raises (KeyError or ValueError), and its value
SWFContext_result_raises(call_key) ==
    call_key \notin DOMAIN results \/ order_index_raises(call_key)

SWFContext_result(call_key) == <<results[call_key], order_index(call_key)>>

\* error(call_key)
SWFContext_error_raises(call_key) ==
    call_key \notin DOMAIN errors \/ order_index_raises(call_key)

SWFContext_error(call_key) == <<errors[call_key], order_index(call_key)>>

\* timeout(call_key) looks at order only
SWFContext_timeout_raises(call_key) == order_index_raises(call_key)

SWFContext_timeout(call_key) == order_index(call_key)

-----------------------------------------------------------------------------
(* The proxies *)

\* int(delay) > 0 and not context.timer_ready(call_key)
ProxyRaises(call_key, delay) ==
    delay > 0 /\ timer_ready(call_key) = NameError

ProxyDelays(call_key, delay) ==
    delay > 0 /\ ~timer_ready(call_key)

\* SWFActivityProxy.schedule; serialized is whether serialize_input returns
SWFActivityProxy_schedule(call_key, delay, serialized) ==
    IF ProxyRaises(call_key, delay)
    THEN raised' = NameError /\ UNCHANGED <<decisions, closed, sent, issued>>
    ELSE IF ProxyDelays(call_key, delay)
    THEN schedule_timer(call_key, delay)
    ELSE IF ~serialized
    THEN \E reason \in Reasons : fail(reason)
    ELSE \E input \in Inputs :
             schedule_activity(call_key, ActivityName, Version, input)

SWFWorkflowProxy_schedule(call_key, delay, serialized) ==
    IF ProxyRaises(call_key, delay)
    THEN raised' = NameError /\ UNCHANGED <<decisions, closed, sent, issued>>
    ELSE IF ProxyDelays(call_key, delay)
    THEN schedule_timer(call_key, delay)
    ELSE IF ~serialized
    THEN \E reason \in Reasons : fail(reason)
    ELSE \E input \in Inputs :
             schedule_workflow(call_key, WorkflowName, Version, input)

-----------------------------------------------------------------------------
(* Any sequence of at most MaxCalls calls on one context *)

Called(op, k, d) ==
    /\ call.n < MaxCalls
    /\ call' = [op |-> op, n |-> call.n + 1, wasClosed |-> closed, key |-> k,
                delay |-> d, before |-> decisions]
    /\ UNCHANGED <<child_policy, projVars, runVars, workerVars, envVars>>

Fail == \E reason \in Reasons : Called("fail", None, 0) /\ fail(reason)

Finish == \E result \in Results : Called("finish", None, 0) /\ finish(result)

Restart == \E input \in Inputs : Called("restart", None, 0) /\ restart(input)

Flush == Called("flush", None, 0) /\ flush(decisions) /\ UNCHANGED decisions

ScheduleTimer ==
    \E k \in CallKeys, d \in Delays \ {0} :
        Called("schedule_timer", k, d) /\ schedule_timer(k, d)

ScheduleActivity ==
    \E k \in CallKeys, input \in Inputs :
        /\ Called("schedule_activity", k, 0)
        /\ schedule_activity(k, ActivityName, Version, input)

ScheduleWorkflow ==
    \E k \in CallKeys, input \in Inputs :
        /\ Called("schedule_workflow", k, 0)
        /\ schedule_workflow(k, WorkflowName, Version, input)

ActivityProxySchedule ==
    \E k \in CallKeys, d \in Delays, serialized \in BOOLEAN :
        /\ Called("SWFActivityProxy.schedule", k, d)
        /\ SWFActivityProxy_schedule(k, d, serialized)

WorkflowProxySchedule ==
    \E k \in CallKeys, d \in Delays, serialized \in BOOLEAN :
        /\ Called("SWFWorkflowProxy.schedule", k, d)
        /\ SWFWorkflowProxy_schedule(k, d, serialized)

RunInit ==
    /\ script = <<>>
    /\ pc = 0
    /\ run = 0

InitCtx ==
    /\ ProjInit /\ CtxInit /\ RunInit
    /\ WorkerAt("run", 0) /\ EnvInit

NextCtx ==
    \/ Fail
    \/ Finish
    \/ Restart
    \/ Flush
    \/ ScheduleTimer
    \/ ScheduleActivity
    \/ ScheduleWorkflow
    \/ ActivityProxySchedule
    \/ WorkflowProxySchedule

SpecCtx == InitCtx /\ [][NextCtx]_vars

-----------------------------------------------------------------------------
(* One deterministic workflow run over one decision task, run twice: the    *)
(* task is delivered again (the first answer was lost, or came too late)    *)
(* and a fresh SWFContext is built over the same history.  The workflow is  *)
(* its script: the proxy calls it makes, in order; the i-th call gets the   *)
(* call-key str(i).                                                         *)

ScriptCalls == [proxy : {"activity", "workflow"}, delay : Delays,
                serialized : BOOLEAN]

Scripts == UNION {[1..n -> ScriptCalls] : n \in 1..MaxScript}

InitReplay ==
    /\ ProjInit
    /\ CtxInit
    /\ child_policy = TERMINATE
    /\ script \in Scripts
    /\ pc = 0
    /\ run = 1
    /\ WorkerAt("run", 0)
    /\ EnvInit

RunDone == pc = Len(script) + 1

\* The workflow code calls its next proxy.
RunCall ==
    /\ pc < Len(script)
    /\ raised = "none"
    /\ LET c == script[pc + 1]
       IN  IF c.proxy = "activity"
           THEN SWFActivityProxy_schedule(str(pc), c.delay, c.serialized)
           ELSE SWFWorkflowProxy_schedule(str(pc), c.delay, c.serialized)
    /\ pc' = pc + 1
    /\ UNCHANGED <<script, run, call, child_policy, projVars, workerVars,
                   envVars>>

\* The workflow code raised: the run fails the execution.
RunRaised ==
    /\ ~RunDone
    /\ raised # "none"
    /\ \E reason \in Reasons : fail(reason)
    /\ pc' = Len(script) + 1
    /\ UNCHANGED <<script, run, call, child_policy, projVars, workerVars,
                   envVars>>

\* The workflow code is waiting on its calls: the accumulated schedules are sent.
RunSuspended ==
    /\ pc = Len(script)
    /\ raised = "none"
    /\ flush(decisions)
    /\ pc' = Len(script) + 1
    /\ UNCHANGED <<decisions, script, run, call, child_policy, projVars,
                   workerVars, envVars>>

\* The same task again: SWFContext.__init__ over the same projection.
Redeliver ==
    /\ run = 1
    /\ RunDone
    /\ decisions' = <<>>
    /\ closed' = FALSE
    /\ raised' = "none"
    /\ issued' = <<>>
    /\ pc' = 0
    /\ run' = 2
    /\ UNCHANGED <<sent, script, call, child_policy, projVars, workerVars,
                   envVars>>

NextReplay ==
    \/ RunCall
    \/ RunRaised
    \/ RunSuspended
    \/ Redeliver

SpecReplay == InitReplay /\ [][NextReplay]_vars

-----------------------------------------------------------------------------
(* The projector over every history of at most MaxEvents further events *)

InitProj ==
    /\ ProjInit /\ CtxInit /\ RunInit
    /\ child_policy = TERMINATE
    /\ WorkerAt("parse", MaxEvents) /\ EnvInit

SpecProj == InitProj /\ [][parse_events]_vars


-----------------------------------------------------------------------------
(* The worker loop of start_swf_workflow_worker: poll_next_decision, the    *)
(* pager under it, and the registry call.  The service's answers are the    *)
(* inputs: an error, a response without a task, or a page.                  *)

PageRetries == 7

_PaginationError == "_PaginationError"

\* Events on one page; the first page of a task can be empty.
PageSizes == {0, 1}

\* The (name, version) pairs the registry holds, and the ones tasks carry
RegistryKeys == {<<WorkflowName, Version>>}
TaskKeys == RegistryKeys \cup {<<WorkflowName, <<"2">>>>}

\* The pages the service can answer with.  A history has at most MaxPages
\* pages and holds its WorkflowExecutionStarted event.
ServedPages(last) ==
    {r \in {Response(Token, n, next) : n \in PageSizes, next \in BOOLEAN} :
        /\ last => ~r.nextPageToken
        /\ (eventId = 0 /\ r.events = 0) => r.nextPageToken}

\* The locals of a new call of poll_next_decision and of its parse_events
FreshLocals ==
    /\ running' = {} /\ timedout' = {}
    /\ results' = <<>> /\ errors' = <<>>
    /\ order' = <<>>
    /\ event2call' = <<>>
    /\ e' = NoEvent
    /\ id' = None
    /\ eventId' = 0
    /\ perr' = "none"
    /\ everRunning' = {}
    /\ ctx_key' = None
    /\ fetch' = NoFetch
    /\ pages' = 0

\* poll_next_decision(layer1, domain, task_list, identity) is entered:
\* poll_first_page starts with swf_response = {}
Enter(domain, task_list) ==
    /\ tasks < MaxTasks
    /\ tasks' = tasks + 1
    /\ poll_args' = <<domain, task_list>>
    /\ wpc' = "poll_first"
    /\ page' = Response(None, 0, FALSE)
    /\ polls' = 0
    /\ FreshLocals
    /\ UNCHANGED <<wexc, ctxVars, runVars, envVars>>

\* while 1: context = poll_next_decision(layer1, domain, task_list, identity)
PollNextDecision ==
    /\ wpc = "loop"
    /\ Enter(Domain, TaskList)

\* except _PaginationError:
\*     return poll_next_decision(layer1, task_list, domain, identity)
PollNextDecisionAgain ==
    /\ wpc = "retry"
    /\ Enter(poll_args[2], poll_args[1])

\* poll_first_page that lets the transport error through
PollFirstError_raising ==
    /\ wpc = "poll_first"
    /\ polls < MaxPolls
    /\ polls' = polls + 1
    /\ wpc' = "crashed"
    /\ wexc' = SWFResponseError
    /\ UNCHANGED <<page, fetch, pages, tasks, poll_args, ctx_key, projVars,
                   ctxVars, runVars, envVars>>

\* poll_first_page, one turn of its loop: poll_for_decision_task raises
\* SWFResponseError, which is logged
PollFirstError ==
    /\ wpc = "poll_first"
    /\ polls < MaxPolls
    /\ polls' = polls + 1
    /\ UNCHANGED <<wpc, wexc>>
    /\ UNCHANGED <<page, fetch, pages, tasks, poll_args, ctx_key, projVars,
                   ctxVars, runVars, envVars>>

\* ... the long poll ends with no task: no taskToken, or an empty one
PollFirstTokenless ==
    /\ wpc = "poll_first"
    /\ polls < MaxPolls
    /\ polls' = polls + 1
    /\ \E tok \in {None, <<>>} : page' = Response(tok, 0, FALSE)
    /\ UNCHANGED <<wpc, fetch, pages, tasks, poll_args, wexc, ctx_key,
                   projVars, ctxVars, runVars, envVars>>

\* ... a task arrives: the loop ends, the page is returned and the events
\* generator is made over it
PollFirstTokened ==
    /\ wpc = "poll_first"
    /\ polls' = polls + 1
    /\ \E r \in ServedPages(FALSE) : page' = r
    /\ pages' = 1
    /\ wpc' = "first_event"
    /\ UNCHANGED <<fetch, tasks, poll_args, wexc, ctx_key, projVars, ctxVars,
                   runVars, envVars>>

\* events() turning the page as soon as it names a next one
PageWanted_eager ==
    /\ wpc \in {"first_event", "parse"}
    /\ perr = "none"
    /\ page.nextPageToken

\* events(): page['events'] is used up and the page names a next one
PageWanted ==
    /\ wpc \in {"first_event", "parse"}
    /\ perr = "none"
    /\ page.events = 0
    /\ page.nextPageToken

\* poll_response_page that gives up at the first transport error
poll_response_page_once(ok) ==
    IF ok
    THEN fetch' = [failed |-> 0, outcome |-> "page"]
    ELSE fetch' = [failed |-> fetch.failed + 1, outcome |-> _PaginationError]

\* poll_response_page, one turn of `for _ in range(7)`: the poll answers
\* (break, return swf_response) or raises SWFResponseError, which is logged;
\* the for's else clause raises _PaginationError after the last turn.
\* fetch.failed counts the turns of the call under way.
poll_response_page(ok) ==
    IF ok
    THEN fetch' = [failed |-> 0, outcome |-> "page"]
    ELSE fetch' = [failed |-> fetch.failed + 1,
                   outcome |-> IF fetch.failed + 1 = PageRetries
                               THEN _PaginationError
                               ELSE "none"]

\* page = poll_response_page(...): the next page is there
PageAttemptOk ==
    /\ PageWanted
    /\ poll_response_page(TRUE)
    /\ \E r \in ServedPages(pages + 1 = MaxPages) :
           page' = events_turn(page, r)
    /\ pages' = pages + 1
    /\ UNCHANGED <<wpc, tasks, polls, poll_args, wexc, ctx_key, projVars,
                   ctxVars, runVars, envVars>>

\* The attempt failed.  _PaginationError leaves the generator where it was
\* asked for an event: inside parse_events, under poll_next_decision's try,
\* or at first_event = next(all_events), which no try encloses, so that it
\* leaves the worker loop too.
PageAttemptFailed ==
    /\ PageWanted
    /\ poll_response_page(FALSE)
    /\ IF fetch'.outcome # _PaginationError
       THEN UNCHANGED <<wpc, wexc>>
       ELSE IF wpc = "parse"
       THEN wpc' = "retry" /\ UNCHANGED wexc
       ELSE wpc' = "crashed" /\ wexc' = _PaginationError
    /\ UNCHANGED <<page, pages, tasks, polls, poll_args, ctx_key, projVars,
                   ctxVars, runVars, envVars>>

\* first_event = next(all_events): WorkflowExecutionStarted, of which name and
\* version are read
FirstEvent ==
    /\ wpc = "first_event"
    /\ page.events > 0
    /\ page' = events_yield(page)
    /\ eventId' = eventId + 1
    /\ \E key \in TaskKeys : ctx_key' = key
    /\ wpc' = "parse"
    /\ UNCHANGED <<running, timedout, results, errors, order, event2call, e,
                   id, perr, everRunning>>
    /\ UNCHANGED <<fetch, pages, tasks, polls, poll_args, wexc, ctxVars,
                   runVars, envVars>>

\* The generator is exhausted: parse_events returns and poll_next_decision
\* returns SWFContext(...) over the projected state
ReturnContext ==
    /\ wpc = "parse"
    /\ perr = "none"
    /\ page.events = 0
    /\ ~page.nextPageToken
    /\ decisions' = <<>>
    /\ closed' = FALSE
    /\ raised' = "none"
    /\ issued' = <<>>
    /\ wpc' = "run"
    /\ UNCHANGED <<child_policy, sent, call, page, fetch, pages, tasks, polls,
                   poll_args, wexc, ctx_key, projVars, runVars, envVars>>

\* Propagate with the exception caught and a context made all the same
Propagate_swallowed ==
    /\ wpc = "parse"
    /\ perr # "none"
    /\ wpc' = "run"
    /\ UNCHANGED wexc
    /\ UNCHANGED <<page, fetch, pages, tasks, polls, poll_args, ctx_key,
                   projVars, ctxVars, runVars, envVars>>

\* An exception of parse_events other than _PaginationError: neither
\* poll_next_decision nor the worker loop catches it
Propagate ==
    /\ wpc = "parse"
    /\ perr # "none"
    /\ wpc' = "crashed"
    /\ wexc' = perr
    /\ UNCHANGED <<page, fetch, pages, tasks, polls, poll_args, ctx_key,
                   projVars, ctxVars, runVars, envVars>>

\* registry(context), the key is registered: the workflow runs and answers
\* the task; here it returns its result at once
RunWorkflow ==
    /\ wpc = "run"
    /\ ctx_key \in RegistryKeys
    /\ \E result \in Results : finish(result)
    /\ wpc' = "loop"
    /\ UNCHANGED <<child_policy, call, page, fetch, pages, tasks, polls,
                   poll_args, wexc, ctx_key, projVars, runVars, envVars>>

\* registry(context), no config is found for this name and version:
\* ValueError, which the worker loop does not catch
RunUnknown ==
    /\ wpc = "run"
    /\ ctx_key \notin RegistryKeys
    /\ wpc' = "crashed"
    /\ wexc' = ValueError
    /\ UNCHANGED <<page, fetch, pages, tasks, polls, poll_args, ctx_key,
                   projVars, ctxVars, runVars, envVars>>

\* except KeyboardInterrupt: pass.  The signal comes while the worker waits
\* in the long poll.
Interrupt ==
    /\ wpc = "poll_first"
    /\ wpc' = "returned"
    /\ UNCHANGED <<page, fetch, pages, tasks, polls, poll_args, wexc, ctx_key,
                   projVars, ctxVars, runVars, envVars>>

InitWorker ==
    /\ ProjInit /\ CtxInit /\ RunInit /\ EnvInit
    /\ child_policy = TERMINATE
    /\ wpc = "loop"
    /\ page = Response(None, 0, FALSE)
    /\ fetch = NoFetch
    /\ pages = 0
    /\ tasks = 0
    /\ polls = 0
    /\ poll_args = <<Domain, TaskList>>
    /\ wexc = "none"
    /\ ctx_key = None

NextWorker ==
    \/ PollNextDecision
    \/ PollNextDecisionAgain
    \/ PollFirstError
    \/ PollFirstTokenless
    \/ PollFirstTokened
    \/ PageAttemptOk
    \/ PageAttemptFailed
    \/ FirstEvent
    \/ parse_events
    \/ ReturnContext
    \/ Propagate
    \/ RunWorkflow
    \/ RunUnknown
    \/ Interrupt

SpecWorker == InitWorker /\ [][NextWorker]_vars

\* The worker calls poll_for_decision_task again as long as poll_first_page
\* loops, and the service in the end has a task for it.
SpecWorkerFair == SpecWorker /\ WF_vars(PollFirstTokened)

-----------------------------------------------------------------------------
(* Registration: SWFWorkflowConfig.register_remote for every workflow of    *)
(* the registry, before the worker loop starts                              *)

_RegistrationError == "_RegistrationError"
SWFTypeAlreadyExistsError == "SWFTypeAlreadyExistsError"

Max(a, b) == IF a > b THEN a ELSE b

DigitValue(c) == CHOOSE n \in 0..9 : Digit(n) = c

\* int(val) for a string of digits
RECURSIVE int(_)
int(val) ==
    IF Len(val) = 0 THEN 0
    ELSE int(SubSeq(val, 1, Len(val) - 1)) * 10 + DigitValue(val[Len(val)])

LowerCase == <<"a", "b", "c", "d", "e", "f", "g", "h", "i", "j", "k", "l",
               "m", "n", "o", "p", "q", "r", "s", "t", "u", "v", "w", "x",
               "y", "z">>
UpperCase == <<"A", "B", "C", "D", "E", "F", "G", "H", "I", "J", "K", "L",
               "M", "N", "O", "P", "Q", "R", "S", "T", "U", "V", "W", "X",
               "Y", "Z">>

\* val.upper()
upper(val) ==
    [i \in DOMAIN val |->
        IF \E j \in DOMAIN LowerCase : LowerCase[j] = val[i]
        THEN UpperCase[CHOOSE j \in DOMAIN LowerCase : LowerCase[j] = val[i]]
        ELSE val[i]]

\* _timer_encode raises ValueError: max(int(val), 0) == 0
_timer_encode_raises(val) == val # None /\ Max(int(val), 0) = 0

\* _timer_encode where it returns: None, or str(max(int(val), 0))
_timer_encode(val) == IF val = None THEN None ELSE str(Max(int(val), 0))

\* The defaults a workflow is configured with
Configs ==
    [d_t_l : {None, TaskList},
     d_w_d : {None, <<"6", "0">>, <<"0">>},
     d_d_d : {None, <<"0", "9">>},
     d_c_p : {None, <<"a", "b", "a", "n", "d", "o", "n">>,
              <<"b", "o", "g", "u", "s">>}]

\* The configuration describe_workflow_type reports; None stands for a key
\* that is absent, which w.get(...) reads as None.
RemoteConfigs ==
    [defaultTaskList : {None, TaskList},
     defaultTaskStartToCloseTimeout : {None, <<"9">>},
     defaultExecutionStartToCloseTimeout : {None, <<"6", "0">>},
     defaultChildPolicy : {None, ABANDON}]

NoRemote ==
    [defaultTaskList |-> None, defaultTaskStartToCloseTimeout |-> None,
     defaultExecutionStartToCloseTimeout |-> None, defaultChildPolicy |-> None]

\* _cvt_values raises ValueError
_cvt_values_raises(cfg) ==
    \/ _timer_encode_raises(cfg.d_w_d)
    \/ _timer_encode_raises(cfg.d_d_d)
    \/ (IF _str_or_none(cfg.d_c_p) = None THEN None
        ELSE upper(_str_or_none(cfg.d_c_p))) \notin _CHILD_POLICY

\* _cvt_values where it returns
_cvt_values(cfg) ==
    [d_t_l |-> _str_or_none(cfg.d_t_l),
     d_w_d |-> _timer_encode(cfg.d_w_d),
     d_d_d |-> _timer_encode(cfg.d_d_d),
     d_c_p |-> IF _str_or_none(cfg.d_c_p) = None THEN None
               ELSE upper(_str_or_none(cfg.d_c_p))]

\* check_compatible that leaves out the comparison of the child policies
check_compatible_three(cfg, ok, w) ==
    LET c == _cvt_values(cfg)
    IN  IF ~ok THEN "describe_workflow_type"
        ELSE IF w.defaultTaskList # c.d_t_l THEN "task list"
        ELSE IF w.defaultTaskStartToCloseTimeout # c.d_d_d
        THEN "decision duration"
        ELSE IF w.defaultExecutionStartToCloseTimeout # c.d_w_d
        THEN "workflow duration"
        ELSE "none"

\* check_compatible: what it raises _RegistrationError for, or "none".
\* ok is whether describe_workflow_type answered, w its 'configuration'.
check_compatible(cfg, ok, w) ==
    LET c == _cvt_values(cfg)
    IN  IF ~ok THEN "describe_workflow_type"
        ELSE IF w.defaultTaskList # c.d_t_l THEN "task list"
        ELSE IF w.defaultTaskStartToCloseTimeout # c.d_d_d
        THEN "decision duration"
        ELSE IF w.defaultExecutionStartToCloseTimeout # c.d_w_d
        THEN "workflow duration"
        ELSE IF w.defaultChildPolicy # c.d_c_p THEN "child policy"
        ELSE "none"

\* The answers of register_workflow_type
RegisterAnswers == {"registered", SWFTypeAlreadyExistsError, SWFResponseError}

\* register_remote that takes every error of register_workflow_type for
\* "already exists"
register_remote_lenient(cfg, answer, ok, w) ==
    IF _cvt_values_raises(cfg)
    THEN [cfg |-> cfg, answer |-> "none", described |-> FALSE,
          remote |-> NoRemote, fault |-> "none", outcome |-> ValueError]
    ELSE IF answer = "registered"
    THEN [cfg |-> cfg, answer |-> answer, described |-> FALSE,
          remote |-> NoRemote, fault |-> "none", outcome |-> "registered"]
    ELSE [cfg |-> cfg, answer |-> answer, described |-> TRUE,
          remote |-> IF ok THEN w ELSE NoRemote,
          fault |-> check_compatible(cfg, ok, w),
          outcome |-> IF check_compatible(cfg, ok, w) = "none"
                      THEN "compatible" ELSE _RegistrationError]

\* register_remote: try_register_remote and, when the type exists already,
\* check_compatible.  The record tells what was called and how it ended.
register_remote(cfg, answer, ok, w) ==
    IF _cvt_values_raises(cfg)
    THEN [cfg |-> cfg, answer |-> "none", described |-> FALSE,
          remote |-> NoRemote, fault |-> "none", outcome |-> ValueError]
    ELSE IF answer = "registered"
    THEN [cfg |-> cfg, answer |-> answer, described |-> FALSE,
          remote |-> NoRemote, fault |-> "none", outcome |-> "registered"]
    ELSE IF answer = SWFResponseError
    THEN [cfg |-> cfg, answer |-> answer, described |-> FALSE,
          remote |-> NoRemote, fault |-> "register_workflow_type",
          outcome |-> _RegistrationError]
    ELSE [cfg |-> cfg, answer |-> answer, described |-> TRUE,
          remote |-> IF ok THEN w ELSE NoRemote,
          fault |-> check_compatible(cfg, ok, w),
          outcome |-> IF check_compatible(cfg, ok, w) = "none"
                      THEN "compatible" ELSE _RegistrationError]

\* SWFWorkflowRegistry.register_remote, one turn of its loop, under the try
\* of start_swf_workflow_worker: _RegistrationError is logged and printed and
\* the process exits with status 1; ValueError is not caught.
RegisterRemote ==
    /\ wpc = "register"
    /\ todo > 0
    /\ todo' = todo - 1
    /\ \E cfg \in Configs, answer \in RegisterAnswers, ok \in BOOLEAN,
          w \in RemoteConfigs :
           reg' = register_remote(cfg, answer, ok, w)
    /\ IF reg'.outcome = _RegistrationError
       THEN wpc' = "exited" /\ exit_code' = 1 /\ UNCHANGED wexc
       ELSE IF reg'.outcome = ValueError
       THEN wpc' = "crashed" /\ wexc' = ValueError /\ UNCHANGED exit_code
       ELSE UNCHANGED <<wpc, wexc, exit_code>>
    /\ UNCHANGED <<page, fetch, pages, tasks, polls, poll_args, ctx_key,
                   projVars, ctxVars, runVars, clientVars, pollVars, sizeVars, keyVars>>

\* Every workflow is registered: the worker loop starts.
Registered ==
    /\ wpc = "register"
    /\ todo = 0
    /\ wpc' = "loop"
    /\ UNCHANGED <<page, fetch, pages, tasks, polls, poll_args, wexc, ctx_key,
                   projVars, ctxVars, runVars, envVars>>

\* reg_remote is set and the registry holds todo workflows, or it is not set
InitStart ==
    /\ ProjInit /\ CtxInit /\ RunInit /\ SizeInit /\ KeyInit /\ ClientInit /\ PollInit
    /\ child_policy = TERMINATE
    /\ \/ wpc = "register" /\ todo \in 0..MaxWorkflows
       \/ wpc = "loop" /\ todo = 0
    /\ reg = NoReg
    /\ exit_code = -1
    /\ page = Response(None, 0, FALSE)
    /\ fetch = NoFetch
    /\ pages = 0
    /\ tasks = 0
    /\ polls = 0
    /\ poll_args = <<Domain, TaskList>>
    /\ wexc = "none"
    /\ ctx_key = None

\* The start of the worker, up to the first page of its first task
NextStart ==
    \/ RegisterRemote
    \/ Registered
    \/ PollNextDecision
    \/ PollFirstError
    \/ PollFirstTokenless
    \/ PollFirstTokened
    \/ Interrupt

SpecStart == InitStart /\ [][NextStart]_vars

-----------------------------------------------------------------------------
(* The size caps: the strings the worker, a context and the starter hand to *)
(* the service, for payloads below, at and above the caps                   *)

\* A string of n characters, each the last digit of its position
Payload(n) == [i \in 1..n |-> Digit(i % 10)]

Payloads ==
    {Payload(n) : n \in {2, _REASON_SIZE, _REASON_SIZE + 1, _INPUT_SIZE,
                         _INPUT_SIZE + 1}}

\* s[-n:]
Last(s, n) == SubSeq(s, Len(s) - Min(n, Len(s)) + 1, Len(s))

\* _default_identity() for "%s-%s" % (socket.getfqdn(), os.getpid()) = id
_default_identity(fqdn_pid) == Last(fqdn_pid, _IDENTITY_SIZE)

\* The identity arguments of start_swf_workflow_worker, and the host names
Identities == {None, Payload(_IDENTITY_SIZE + 1)}
HostNames == {Payload(_IDENTITY_SIZE), Payload(_IDENTITY_SIZE + 2)}

\* start_swf_workflow_worker, lines 658-659: the identity it polls with
StartWorker ==
    /\ wpc = "start"
    /\ \E given \in Identities, fqdn_pid \in HostNames :
           identity' = Truncate(IF given # None THEN given
                                ELSE _default_identity(fqdn_pid),
                                _IDENTITY_SIZE)
    /\ wpc' = "run"
    /\ UNCHANGED <<started, arg, page, fetch, pages, tasks, polls, poll_args,
                   wexc, ctx_key, projVars, ctxVars, runVars, clientVars, pollVars, regVars,
                   keyVars>>

\* SWFWorkflowStarter.start(...)(*args): start_workflow_execution answers
\* (True) or raises SWFResponseError (False)
StarterStart ==
    /\ wpc = "start"
    /\ \E serialized \in Payloads, ok \in BOOLEAN :
           /\ arg' = serialized
           /\ started' = Append(started,
                  [input |-> Truncate(serialized, _INPUT_SIZE), ok |-> ok])
    /\ wpc' = "started"
    /\ UNCHANGED <<identity, page, fetch, pages, tasks, polls, poll_args,
                   wexc, ctx_key, projVars, ctxVars, runVars, clientVars, pollVars, regVars,
                   keyVars>>

\* A call on the open context of the worker's task, with payload a
SizeCalled(op, a) ==
    /\ wpc = "run"
    /\ ~closed
    /\ call' = [op |-> op, n |-> call.n + 1, wasClosed |-> closed,
                key |-> None, delay |-> 0, before |-> decisions]
    /\ arg' = a
    /\ UNCHANGED <<child_policy, identity, started, projVars, runVars, clientVars, pollVars,
                   workerVars, regVars, keyVars>>

SizeFail == \E reason \in Payloads : SizeCalled("fail", reason) /\ fail(reason)

SizeFinish ==
    \E result \in Payloads : SizeCalled("finish", result) /\ finish(result)

SizeRestart ==
    \E input \in Payloads : SizeCalled("restart", input) /\ restart(input)

SizeFlush ==
    SizeCalled("flush", None) /\ flush(decisions) /\ UNCHANGED decisions

\* The workflow schedules one task before it answers.
SizeScheduleActivity ==
    \E input \in Payloads :
        /\ decisions = <<>>
        /\ SizeCalled("schedule_activity", input)
        /\ schedule_activity(<<"0">>, ActivityName, Version, input)

SizeScheduleWorkflow ==
    \E input \in Payloads :
        /\ decisions = <<>>
        /\ SizeCalled("schedule_workflow", input)
        /\ schedule_workflow(<<"0">>, WorkflowName, Version, input)

InitSize ==
    /\ ProjInit /\ CtxInit /\ RunInit /\ EnvInit
    /\ child_policy = TERMINATE
    /\ wpc = "start"
    /\ page = Response(Token, 0, FALSE)
    /\ fetch = NoFetch
    /\ pages = 1
    /\ tasks = 1
    /\ polls = 1
    /\ poll_args = <<Domain, TaskList>>
    /\ wexc = "none"
    /\ ctx_key = <<WorkflowName, Version>>

NextSize ==
    \/ StartWorker
    \/ StarterStart
    \/ SizeFail
    \/ SizeFinish
    \/ SizeRestart
    \/ SizeFlush
    \/ SizeScheduleActivity
    \/ SizeScheduleWorkflow

SpecSize == InitSize /\ [][NextSize]_vars

-----------------------------------------------------------------------------
(* The sub-workflow key round trip: schedule_workflow wraps a call-key into *)
(* a workflow id, parse_events takes the call-key out of the id again       *)

KeyChars == {"0", "1", "-"}

\* The call-keys: every string of 1..MaxKeyLen characters
KeyStrings == UNION {[1..n -> KeyChars] : n \in 1..MaxKeyLen}

\* call_key = _subworkflow_key(call_key)
Wrap ==
    /\ rt.step = "given"
    /\ \E uuid4 \in UUIDs :
           rt' = [rt EXCEPT !.step = "wrapped",
                            !.key = _subworkflow_key(uuid4, rt.call_key)]
    /\ UNCHANGED <<projVars, ctxVars, runVars, clientVars, pollVars, workerVars, regVars, sizeVars,
                   blob>>

\* id = _subworkflow_call_key(id)
Extract ==
    /\ rt.step = "wrapped"
    /\ rt' = [rt EXCEPT !.step = "extracted",
                        !.back = _subworkflow_call_key(rt.key)]
    /\ UNCHANGED <<projVars, ctxVars, runVars, clientVars, pollVars, workerVars, regVars, sizeVars,
                   blob>>

InitKey ==
    /\ ProjInit /\ CtxInit /\ RunInit /\ RegInit /\ SizeInit /\ ClientInit /\ PollInit
    /\ child_policy = TERMINATE
    /\ WorkerAt("run", 0)
    /\ \E k \in KeyStrings :
           rt = [step |-> "given", call_key |-> k, key |-> None, back |-> None]
    /\ blob = NoBlob

NextKey ==
    \/ Wrap
    \/ Extract

SpecKey == InitKey /\ [][NextKey]_vars

-----------------------------------------------------------------------------
(* flowy/swf.py: the context blob.  _str_concat writes the length of its    *)
(* first string, a space, the first string and then the second one;        *)
(* _str_deconcat takes the two apart again.                                 *)

BlobChars == {"a", " ", "1"}

BlobStrings == UNION {[1..n -> BlobChars] : n \in 0..MaxStrLen}

\* '%d %s' % (len(str1), str1), or '%d %s%s' % (len(str1), str1, str2)
_str_concat(str1, str2) ==
    IF str2 = None
    THEN str(Len(str1)) \o <<" ">> \o str1
    ELSE str(Len(str1)) \o <<" ">> \o str1 \o str2

\* The place of the first ' ' of s, or 0
FirstSpace(s) ==
    IF \E i \in DOMAIN s : s[i] = " "
    THEN CHOOSE i \in DOMAIN s : s[i] = " " /\ \A j \in 1..(i - 1) : s[j] # " "
    ELSE 0

\* _str_deconcat that takes everything after the space for the first string
_str_deconcat_greedy(s) ==
    LET str1str2 == SubSeq(s, FirstSpace(s) + 1, Len(s))
    IN  <<str1str2, None>>

\* str1_len, str1str2 = s.split(' ', 1); the two slices; '' becomes None
_str_deconcat(s) ==
    LET str1_len == int(SubSeq(s, 1, FirstSpace(s) - 1))
        str1str2 == SubSeq(s, FirstSpace(s) + 1, Len(s))
        str1 == Truncate(str1str2, str1_len)
        str2 == SubSeq(str1str2, Len(str1) + 1, Len(str1str2))
    IN  <<str1, IF str2 = <<>> THEN None ELSE str2>>

Concat ==
    /\ blob.step = "given"
    /\ blob' = [blob EXCEPT !.step = "concat",
                            !.s = _str_concat(blob.str1, blob.str2)]
    /\ UNCHANGED <<projVars, ctxVars, runVars, clientVars, pollVars, workerVars, regVars, sizeVars,
                   rt>>

Deconcat ==
    /\ blob.step = "concat"
    /\ blob' = [blob EXCEPT !.step = "deconcat", !.out = _str_deconcat(blob.s)]
    /\ UNCHANGED <<projVars, ctxVars, runVars, clientVars, pollVars, workerVars, regVars, sizeVars,
                   rt>>

InitBlob ==
    /\ ProjInit /\ CtxInit /\ RunInit /\ RegInit /\ SizeInit /\ ClientInit /\ PollInit
    /\ child_policy = TERMINATE
    /\ WorkerAt("run", 0)
    /\ rt = NoRoundTrip
    /\ \E a \in BlobStrings, b \in BlobStrings \cup {None} :
           blob = [step |-> "given", str1 |-> a, str2 |-> b, s |-> None,
                   out |-> <<None, None>>]

NextBlob ==
    \/ Concat
    \/ Deconcat

SpecBlob == InitBlob /\ [][NextBlob]_vars

-----------------------------------------------------------------------------
(* flowy/swf.py: Client over SWFClient.  One SWFClient holds the three       *)
(* queues for every decision task the Client dispatches; the service keeps   *)
(* for each workflow execution its input and the execution context of the    *)
(* last decision it accepted.  A queue entry carries `during`, the token of  *)
(* the decision task in hand when it was queued (a history field).           *)

\* (name, version) of the workflow types of the domain, and of the one this
\* client registers a decision maker for
ClientKeys == {<<<<"w">>, <<"1">>>>, <<<<"w">>, <<"2">>>>}
OwnKeys == {<<<<"w">>, <<"1">>>>}
DecisionMakers == {"decide"}
CallIds == {<<"0">>}
WorkflowUUIDs == {<<"a", "-", "b">>}
ClientInputs == {<<"4", " ">>}
GlobalContexts == {<<>>, <<"g">>, <<"2", " ">>}
Default == <<"d">>

\* The defaults register_workflow is called with, as it sends them
LocalDefaults ==
    [estc |-> str(3600), tstc |-> str(60), tl |-> TaskList, cp |-> TERMINATE]

\* What the service answers to register_workflow_type and, for a type that
\* exists, to describe_workflow_type
ClientAnswers ==
    {[register |-> r, describe |-> "ok", conf |-> LocalDefaults] :
        r \in {"ok", "error"}}
    \cup {[register |-> "exists", describe |-> "error", conf |-> LocalDefaults]}
    \cup {[register |-> "exists", describe |-> "ok", conf |-> c] :
            c \in {LocalDefaults,
                   [LocalDefaults EXCEPT !.cp = ABANDON],
                   [LocalDefaults EXCEPT !.tstc = str(61)],
                   [LocalDefaults EXCEPT !.tl = Domain]}}

\* SWFClient.register_workflow that takes every registered type as its own
SWFClient_register_workflow_trusting(defaults, answer) ==
    answer.register \in {"ok", "exists"}

\* SWFClient.register_workflow: its return value
SWFClient_register_workflow(defaults, answer) ==
    CASE answer.register = "ok" -> TRUE
      [] answer.register = "error" -> FALSE
      [] OTHER ->
            IF answer.describe = "error" THEN FALSE
            ELSE ~ \/ answer.conf.estc # defaults.estc
                   \/ answer.conf.tstc # defaults.tstc
                   \/ answer.conf.tl # defaults.tl
                   \/ answer.conf.cp # defaults.cp

\* dict[k] = v on a dict kept as the sequence of its items
dict_set(d, k, v) ==
    IF \E i \in DOMAIN d : d[i][1] = k
    THEN [i \in DOMAIN d |-> IF d[i][1] = k THEN <<k, v>> ELSE d[i]]
    ELSE Append(d, <<k, v>>)

\* The position of the first c in s, or 0
Index(s, c) ==
    IF \E i \in DOMAIN s : s[i] = c
    THEN CHOOSE i \in DOMAIN s : s[i] = c /\ \A j \in 1..(i - 1) : s[j] # c
    ELSE 0

RECURSIVE json_items(_)
json_items(d) ==
    IF d = <<>> THEN <<>>
    ELSE d[1][1] \o <<":">> \o d[1][2] \o <<",">> \o json_items(Tail(d))

\* json.dumps of the four dicts of a JSONDecisionContext; the event map and
\* the two dicts of call contexts are empty here.
json_dumps(workflow_to_call_id) ==
    <<"[", "{", "}", ",", "{">> \o json_items(workflow_to_call_id)
        \o <<"}", ",", "{", "}", ",", "{", "}", "]">>

RECURSIVE json_parse(_)
json_parse(s) ==
    IF s = <<>> THEN <<>>
    ELSE LET item == SubSeq(s, 1, Index(s, ",") - 1)
             k == SubSeq(item, 1, Index(item, ":") - 1)
             v == SubSeq(item, Index(item, ":") + 1, Len(item))
         IN  <<<<k, v>>>> \o json_parse(SubSeq(s, Index(s, ",") + 1, Len(s)))

\* json.loads: the second of the four dicts
json_loads(json_data) == json_parse(SubSeq(json_data, 6, Len(json_data) - 8))

\* DecisionData.for_first_run(data) and DecisionData(data): <<_input, _context>>
DecisionData(data, _first_run) ==
    IF _first_run THEN <<data, None>> ELSE _str_deconcat(data)

\* JSONDecisionContext(context): <<_workflow_to_call_id, _global_context>>
JSONDecisionContext(context) ==
    IF context = None THEN <<<<>>, None>>
    ELSE <<json_loads(_str_deconcat(context)[1]), _str_deconcat(context)[2]>>

\* JSONDecisionContext.global_context(default)
global_context(default) ==
    IF decision._global_context = None THEN default
    ELSE decision._global_context

\* JSONDecisionContext.serialize that writes only a new global context
JSONDecisionContext_serialize_new(new_global_context) ==
    _str_concat(json_dumps(decision._workflow_to_call_id), new_global_context)

\* JSONDecisionContext.serialize(new_global_context)
JSONDecisionContext_serialize(new_global_context) ==
    _str_concat(json_dumps(decision._workflow_to_call_id),
                IF new_global_context # None THEN new_global_context
                ELSE global_context(None))

\* DecisionData.serialize(new_context)
DecisionData_serialize(new_context) ==
    _str_concat(decision._input,
                IF new_context # None THEN new_context ELSE decision._context)

ClientFrame ==
    UNCHANGED <<projVars, ctxVars, runVars, workerVars, regVars, sizeVars,
                keyVars, pollVars>>

Returned(op, value, text) ==
    [op |-> op, value |-> value, text |-> text, since |-> queued]

\* Client.register_workflow, called before the first workflow is started
Client_register_workflow ==
    /\ execution = NoExecution
    /\ \E key \in OwnKeys, decision_maker \in DecisionMakers,
          answer \in ClientAnswers :
        LET reg_result == SWFClient_register_workflow(LocalDefaults, answer)
        IN  /\ _workflow_registry' =
                   IF reg_result
                   THEN [k \in DOMAIN _workflow_registry \cup {key} |->
                            IF k = key THEN decision_maker
                            ELSE _workflow_registry[k]]
                   ELSE _workflow_registry
            /\ returned' = Returned("register_workflow",
                                    IF reg_result THEN "True" ELSE "False",
                                    None)
            /\ accepted' =
                   IF \/ answer.register = "ok"
                      \/ /\ answer.register = "exists"
                         /\ answer.describe = "ok"
                         /\ answer.conf = LocalDefaults
                   THEN accepted \cup {key} ELSE accepted
    /\ UNCHANGED <<_scheduled_activities, _scheduled_workflows,
                   _scheduled_timers, execution, decision, responded, queued,
                   handled>>
    /\ ClientFrame

\* Client.start_workflow: a new execution, once the one before is closed
Client_start_workflow ==
    /\ decision = NoDecision
    /\ ~execution.open
    /\ execution.tasks < MaxDecisions
    /\ \E key \in ClientKeys, input \in ClientInputs, ok \in BOOLEAN :
        /\ execution' =
               IF ok
               THEN [key |-> key, input |-> input, context |-> None,
                     open |-> TRUE, tasks |-> execution.tasks, global |-> None,
                     setby |-> 0, kept |-> FALSE]
               ELSE execution
        /\ returned' = Returned("start_workflow",
                                IF ok THEN "runId" ELSE "None", None)
    /\ UNCHANGED <<_workflow_registry, _scheduled_activities,
                   _scheduled_workflows, _scheduled_timers, decision, responded,
                   accepted, queued, handled>>
    /\ ClientFrame

\* Client.dispatch_next_decision up to the call of the decision maker; whole
\* is false when poll_decision returned None for want of a page.
Client_dispatch_next_decision ==
    /\ decision = NoDecision
    /\ execution.open
    /\ execution.tasks < MaxDecisions
    /\ \E whole \in BOOLEAN :
        LET token == execution.tasks + 1
            first_run == execution.context = None
            data == DecisionData(IF first_run THEN execution.input
                                 ELSE execution.context, first_run)
            decision_context == JSONDecisionContext(data[2])
        IN  /\ execution' = [execution EXCEPT !.tasks = token]
            /\ IF ~whole \/ execution.key \notin DOMAIN _workflow_registry
               THEN /\ returned' = Returned("dispatch_next_decision", "None",
                                            None)
                    /\ UNCHANGED <<decision, handled>>
               ELSE /\ decision' =
                           [token |-> token,
                            maker |-> _workflow_registry[execution.key],
                            _input |-> data[1], _context |-> data[2],
                            _global_context |-> decision_context[2],
                            _workflow_to_call_id |-> decision_context[1],
                            calls |-> 0, responds |-> 0, answered |-> FALSE,
                            expected |-> execution.global]
                    /\ handled' = handled \cup {token}
                    /\ returned' = NoReturn
            /\ responded' = NoRespond
    /\ UNCHANGED <<_workflow_registry, _scheduled_activities,
                   _scheduled_workflows, _scheduled_timers, accepted, queued>>
    /\ ClientFrame

\* The decision maker returns and dispatch_next_decision returns it.
DecisionMakerReturns ==
    /\ decision # NoDecision
    /\ decision' = NoDecision
    /\ returned' = Returned("dispatch_next_decision", decision.maker, None)
    /\ UNCHANGED <<_workflow_registry, _scheduled_activities,
                   _scheduled_workflows, _scheduled_timers, execution,
                   responded, accepted, queued, handled>>
    /\ ClientFrame

\* A call the running decision maker makes on its Decision
DecisionCall ==
    /\ decision # NoDecision
    /\ decision.calls < MaxCalls
    /\ ClientFrame

QueueRoom ==
    Len(_scheduled_activities) + Len(_scheduled_workflows)
        + Len(_scheduled_timers) < MaxQueued

Entry(type, ident, timeout) ==
    [decisionType |-> type, id |-> ident, timeout |-> timeout,
     during |-> decision.token]

\* Decision.queue_activity and SWFClient.queue_activity
Decision_queue_activity ==
    /\ DecisionCall /\ QueueRoom
    /\ \E call_id \in CallIds :
        /\ _scheduled_activities' =
               Append(_scheduled_activities,
                      Entry("ScheduleActivityTask", call_id, None))
        /\ queued' = Append(queued, Entry("ScheduleActivityTask", call_id, None))
    /\ decision' = [decision EXCEPT !.calls = @ + 1]
    /\ returned' = Returned("queue_activity", "None", None)
    /\ UNCHANGED <<_workflow_registry, _scheduled_workflows, _scheduled_timers,
                   execution, responded, accepted, handled>>

\* Decision.queue_childworkflow and SWFClient.queue_childworkflow
Decision_queue_childworkflow ==
    /\ DecisionCall /\ QueueRoom
    /\ \E call_id \in CallIds, workflow_id \in WorkflowUUIDs :
        /\ _scheduled_workflows' =
               Append(_scheduled_workflows,
                      Entry("StartChildWorkflowExecution", workflow_id, None))
        /\ queued' = Append(queued, Entry("StartChildWorkflowExecution",
                                          workflow_id, None))
        /\ decision' =
               [decision EXCEPT
                   !.calls = @ + 1,
                   !._workflow_to_call_id = dict_set(@, workflow_id, call_id)]
    /\ returned' = Returned("queue_childworkflow", "None", None)
    /\ UNCHANGED <<_workflow_registry, _scheduled_activities, _scheduled_timers,
                   execution, responded, accepted, handled>>

\* Decision.queue_timer and SWFClient.queue_timer
Decision_queue_timer ==
    /\ DecisionCall /\ QueueRoom
    /\ \E call_id \in CallIds, delay \in Delays \ {0} :
        /\ _scheduled_timers' =
               Append(_scheduled_timers, Entry("StartTimer", call_id, str(delay)))
        /\ queued' = Append(queued, Entry("StartTimer", call_id, str(delay)))
    /\ decision' = [decision EXCEPT !.calls = @ + 1]
    /\ returned' = Returned("queue_timer", "None", None)
    /\ UNCHANGED <<_workflow_registry, _scheduled_activities,
                   _scheduled_workflows, execution, responded, accepted,
                   handled>>

\* The service takes one response for a task; a second one, or one the
\* transport loses, raises SWFResponseError.
Transport == IF decision.answered THEN {FALSE} ELSE BOOLEAN

\* SWFClient.schedule_queued without the finally clause: the queues are
\* emptied only after a response that went through
SWFClient_schedule_queued_keeping(token, context, ok) ==
    /\ responded' =
           [op |-> "schedule_queued", task_token |-> token,
            decisions |-> _scheduled_activities \o _scheduled_workflows
                              \o _scheduled_timers,
            execution_context |-> context, ok |-> ok]
    /\ IF ok
       THEN /\ _scheduled_activities' = <<>>
            /\ _scheduled_workflows' = <<>>
            /\ _scheduled_timers' = <<>>
       ELSE UNCHANGED <<_scheduled_activities, _scheduled_workflows,
                        _scheduled_timers>>
    /\ returned' = Returned("schedule_queued", IF ok THEN "True" ELSE "False",
                            None)

\* SWFClient.schedule_queued(token, context)
SWFClient_schedule_queued(token, context, ok) ==
    /\ responded' =
           [op |-> "schedule_queued", task_token |-> token,
            decisions |-> _scheduled_activities \o _scheduled_workflows
                              \o _scheduled_timers,
            execution_context |-> context, ok |-> ok]
    /\ _scheduled_activities' = <<>>
    /\ _scheduled_workflows' = <<>>
    /\ _scheduled_timers' = <<>>
    /\ returned' = Returned("schedule_queued", IF ok THEN "True" ELSE "False",
                            None)

\* Decision.schedule_queued(context), through DecisionClient.schedule_queued,
\* for a decision maker that takes its context from contexts
Decision_schedule_queued(contexts) ==
    /\ DecisionCall
    /\ \E context \in contexts, ok \in Transport :
        LET data == DecisionData_serialize(
                        JSONDecisionContext_serialize(context))
        IN  /\ SWFClient_schedule_queued(decision.token, data, ok)
            /\ execution' =
                   IF ok
                   THEN [execution EXCEPT
                            !.context = data,
                            !.global = IF context # None THEN context ELSE @,
                            !.setby = IF context # None THEN decision.token
                                      ELSE @,
                            !.kept = context = None]
                   ELSE execution
            /\ decision' = [decision EXCEPT !.calls = @ + 1,
                                            !.responds = @ + 1,
                                            !.answered = @ \/ ok]
    /\ queued' = <<>>
    /\ UNCHANGED <<_workflow_registry, accepted, handled>>

\* SWFClient.complete_workflow and SWFClient.fail_workflow
SWFClient_close(op, type, token, ok) ==
    /\ responded' =
           [op |-> op, task_token |-> token,
            decisions |-> <<Entry(type, None, None)>>,
            execution_context |-> None, ok |-> ok]
    /\ returned' = Returned(op, IF ok THEN "True" ELSE "False", None)
    /\ execution' = IF ok THEN [execution EXCEPT !.open = FALSE] ELSE execution
    /\ decision' = [decision EXCEPT !.calls = @ + 1, !.responds = @ + 1,
                                    !.answered = @ \/ ok]
    /\ UNCHANGED <<_workflow_registry, _scheduled_activities,
                   _scheduled_workflows, _scheduled_timers, accepted, queued,
                   handled>>

\* Decision.complete(result)
Decision_complete ==
    /\ DecisionCall
    /\ \E ok \in Transport :
           SWFClient_close("complete_workflow", "CompleteWorkflowExecution",
                           decision.token, ok)

\* Decision.fail(reason)
Decision_fail ==
    /\ DecisionCall
    /\ \E ok \in Transport :
           SWFClient_close("fail_workflow", "FailWorkflowExecution",
                           decision.token, ok)

\* Decision.global_context(default), read when the decision maker starts:
\* nothing a decision maker calls changes what it returns.
Decision_global_context ==
    /\ DecisionCall
    /\ decision.calls = 0
    /\ returned' = Returned("global_context", "str", global_context(Default))
    /\ decision' = [decision EXCEPT !.calls = @ + 1]
    /\ UNCHANGED <<_workflow_registry, _scheduled_activities,
                   _scheduled_workflows, _scheduled_timers, execution,
                   responded, accepted, queued, handled>>

InitClient ==
    /\ ProjInit /\ CtxInit /\ RunInit /\ EnvInit
    /\ child_policy = TERMINATE
    /\ WorkerAt("run", 0)

\* Decision makers that queue, schedule and close, and set no context
NextClient ==
    \/ Client_register_workflow
    \/ Client_start_workflow
    \/ Client_dispatch_next_decision
    \/ DecisionMakerReturns
    \/ Decision_queue_activity
    \/ Decision_queue_childworkflow
    \/ Decision_queue_timer
    \/ Decision_schedule_queued({None})
    \/ Decision_complete
    \/ Decision_fail

SpecClient == InitClient /\ [][NextClient]_vars

\* Decision makers that read the global context and schedule with or
\* without a new one, round after round
NextRounds ==
    \/ Client_register_workflow
    \/ Client_start_workflow
    \/ Client_dispatch_next_decision
    \/ DecisionMakerReturns
    \/ Decision_global_context
    \/ Decision_schedule_queued(GlobalContexts \cup {None})

SpecRounds == InitClient /\ [][NextRounds]_vars

-----------------------------------------------------------------------------
(***************************************************************************)
(* _repeated_poller (flowy/swf.py).  A poll raises IOError or              *)
(* SWFResponseError, or answers without a taskToken, with an empty one, or *)
(* with a task.                                                            *)
(***************************************************************************)

PollOutcomes == {"error", "tokenless", "empty", "token"}

\* The condition the while loop negates:
\* 'taskToken' in response and response['taskToken']
has_token(response) == response = "token"

\* The frame of the actions of this section and of the two after it
PollFrame ==
    UNCHANGED <<projVars, ctxVars, runVars, workerVars, regVars, sizeVars,
                keyVars, clientVars>>

\* _repeated_poller(poller, result_factory, retries) is entered:
\* response = {}, which has no token, so that the loop body runs
_repeated_poller_enter(retries) ==
    [pc |-> "loop", budget |-> retries, retries |-> retries,
     response |-> "{}", outcomes |-> <<>>, result |-> "none"]

\* One turn of the while loop, the poll answering with o: an exception is
\* logged and leaves response as it was; `if retries == 0: return` comes
\* next, whatever the response; otherwise retries = max(retries - 1, -1)
\* and the loop condition is tested: with a token the loop ends and
\* result_factory(response) is returned.
_repeated_poller(p, o) ==
    LET response == IF o = "error" THEN p.response ELSE o
        polled == [p EXCEPT !.response = response,
                            !.outcomes = Append(@, o)]
    IN  IF p.retries = 0
        THEN [polled EXCEPT !.pc = "returned", !.result = "None"]
        ELSE LET counted == [polled EXCEPT
                                !.retries = IF p.retries - 1 > -1
                                            THEN p.retries - 1 ELSE -1]
             IN  IF has_token(response)
                 THEN [counted EXCEPT !.pc = "returned", !.result = "result"]
                 ELSE counted

\* A caller calls _repeated_poller with a budget, or with the default -1
RepeatedPollerCall ==
    /\ poller.pc = "idle"
    /\ \E retries \in -1..MaxRetries :
           poller' = _repeated_poller_enter(retries)
    /\ UNCHANGED <<dpoll, dresp, dround>>
    /\ PollFrame

RepeatedPollerTurn ==
    /\ poller.pc = "loop"
    /\ Len(poller.outcomes) < MaxAttempts
    /\ \E o \in PollOutcomes : poller' = _repeated_poller(poller, o)
    /\ UNCHANGED <<dpoll, dresp, dround>>
    /\ PollFrame

NextPoller == RepeatedPollerCall \/ RepeatedPollerTurn

SpecPoller == InitClient /\ [][NextPoller]_vars

-----------------------------------------------------------------------------
(***************************************************************************)
(* _decision_response (flowy/swf.py) over a _DecisionCollapsed whose       *)
(* all_events are event objects, newest first.                             *)
(***************************************************************************)

AttributeError == "AttributeError"
AssertionError == "AssertionError"
IndexError == "IndexError"

\* The attributes _EventFactory.__init__ sets on the factory.  Its
\* setattr(self, namedtuple(...)) has two arguments: it sets none.
_event_factory_classes == {}

\* _event_factory.<name> is not there
getattr_raises(name) == name \notin _event_factory_classes

\* isinstance(event, _event_factory.<name>), the attribute being there
isinstance(event, name) == event.cls = name

Contexts == {<<"c", "1">>, <<"c", "2">>}

\* The event objects of a history, oldest first: workflow_started, then
\* activity and decision_completed events.  ident is the event id of the
\* event (for a decision_completed, of the DecisionTaskStarted before it)
EventObject(cls, ident, data) == [cls |-> cls, ident |-> ident, data |-> data]

RECURSIVE Histories(_)
Histories(n) ==
    IF n = 0
    THEN {<<EventObject("workflow_started", 1, input)>> :
             input \in ClientInputs}
    ELSE LET shorter == Histories(n - 1)
         IN  shorter \cup
             {Append(h, ev) :
                 h \in {g \in shorter : Len(g) = n},
                 ev \in {EventObject("activity_scheduled", n + 1, None),
                         EventObject("activity_completed", n + 1, None)}
                        \cup {EventObject("decision_completed", n + 1, c) :
                                  c \in Contexts}}

Reverse(seq) == [i \in 1..Len(seq) |-> seq[Len(seq) + 1 - i]]

\* The place of the most recent decision_completed of a history given
\* oldest first, 0 if there is none
LastDecision(h) ==
    IF \E i \in DOMAIN h : h[i].cls = "decision_completed"
    THEN CHOOSE i \in DOMAIN h :
             /\ h[i].cls = "decision_completed"
             /\ \A j \in (i + 1)..Len(h) : h[j].cls # "decision_completed"
    ELSE 0

\* previousStartedEventId as the service reports it for a history
previousStartedEventId(h) ==
    IF LastDecision(h) = 0 THEN 0 ELSE h[LastDecision(h)].ident

\* The _DecisionCollapsed of a task whose pages were all read
_DecisionCollapsed(h) ==
    [all_events |-> Reverse(h), last_event_id |-> previousStartedEventId(h)]

\* The first decision_completed of all_events, 0 if there is none:
\* where the for loop breaks
FirstCompleted(all_events) ==
    IF \E i \in DOMAIN all_events : isinstance(all_events[i],
                                               "decision_completed")
    THEN CHOOSE i \in DOMAIN all_events :
             /\ isinstance(all_events[i], "decision_completed")
             /\ \A j \in 1..(i - 1) :
                    ~isinstance(all_events[j], "decision_completed")
    ELSE 0

\* _decision_response(decision_collapsed): the exception it raises, or
\* "none"
_decision_response_raises(dc) ==
    IF dc.last_event_id = 0
    THEN IF dc.all_events = <<>> THEN IndexError
         ELSE IF getattr_raises("workflow_started") THEN AttributeError
         ELSE IF ~isinstance(dc.all_events[Len(dc.all_events)],
                             "workflow_started") THEN AssertionError
         ELSE "none"
    ELSE IF dc.all_events = <<>> THEN AssertionError
         ELSE IF getattr_raises("decision_completed") THEN AttributeError
         ELSE IF FirstCompleted(dc.all_events) = 0 THEN AssertionError
         ELSE IF dc.all_events[FirstCompleted(dc.all_events)].ident
                     # dc.last_event_id THEN AssertionError
         ELSE "none"

\* _decision_response(decision_collapsed) when it raises nothing
_decision_response(dc) ==
    IF dc.last_event_id = 0
    THEN [first_run |-> TRUE,
          data |-> dc.all_events[Len(dc.all_events)].data,
          new_events |->
              Reverse(SubSeq(dc.all_events, 1, Len(dc.all_events) - 1))]
    ELSE [first_run |-> FALSE,
          data |-> dc.all_events[FirstCompleted(dc.all_events)].data,
          new_events |->
              Reverse(SubSeq(dc.all_events, 1,
                             FirstCompleted(dc.all_events) - 1))]

\* A decision task with its whole history has been collapsed
DecisionCollapsed ==
    /\ dresp.pc = "idle"
    /\ \E h \in Histories(MaxHistory) :
           dresp' = [pc |-> "collapsed", history |-> h,
                     collapsed |-> _DecisionCollapsed(h),
                     raises |-> "none", response |-> None]
    /\ UNCHANGED <<poller, dpoll, dround>>
    /\ PollFrame

\* return _decision_response(decision_collapsed)
DecisionResponse ==
    /\ dresp.pc = "collapsed"
    /\ dresp' =
           [dresp EXCEPT
               !.pc = "done",
               !.raises = _decision_response_raises(dresp.collapsed),
               !.response =
                   IF _decision_response_raises(dresp.collapsed) = "none"
                   THEN _decision_response(dresp.collapsed)
                   ELSE None]
    /\ UNCHANGED <<poller, dpoll, dround>>
    /\ PollFrame

NextResponse == DecisionCollapsed \/ DecisionResponse

SpecResponse == InitClient /\ [][NextResponse]_vars

-----------------------------------------------------------------------------
(***************************************************************************)
(* Client.dispatch_next_decision over SWFClient.poll_decision (flowy/      *)
(* swf.py): the first page, the further pages of _poll_decision_collapsed, *)
(* _decision_page and _decision_response.  The service's inputs are the    *)
(* task (its history, newest first, cut into pages) and how each poll      *)
(* ends.                                                                   *)
(***************************************************************************)

PageRetryBudget == 3

\* The event types of _event_factory's map that the histories here hold,
\* and the ones the decision task itself puts in front
RecognisedTypes ==
    {"WorkflowExecutionStarted", "DecisionTaskCompleted",
     "ActivityTaskCompleted"}
OtherTypes == {"DecisionTaskStarted"}

\* _EventFactory.__call__(event): None for a type that is not in the map;
\* for one that is, `for attr_name, attr_path in attrs` unpacks the keys of
\* the attrs dict ('input', 'event_id', ...) and raises ValueError
_event_factory_raises(event) == event \in RecognisedTypes

\* _decision_page(response): the exception of the first event it cannot
\* build, or "none"
_decision_page_raises(events) ==
    IF \E i \in DOMAIN events : _event_factory_raises(events[i])
    THEN ValueError ELSE "none"

\* _decision_page(response).events: filter(None, ...) over the events that
\* raised nothing, all of which are None
_decision_page(events) == <<>>

\* The histories of a decision task, newest first: the task's
\* DecisionTaskStarted, then events back to WorkflowExecutionStarted
RawHistories ==
    {<<"DecisionTaskStarted">> \o Reverse([i \in 1..Len(h) |->
         CASE h[i].cls = "workflow_started" -> "WorkflowExecutionStarted"
           [] h[i].cls = "decision_completed" -> "DecisionTaskCompleted"
           [] OTHER -> "ActivityTaskCompleted"]) :
       h \in {g \in Histories(MaxHistory - 1) :
                 \A i \in DOMAIN g : /\ g[i].cls # "activity_scheduled"
                                      /\ g[i].data # <<"c", "2">>}}

\* The pages of a history for a page size
PagesOf(raw, size) == (Len(raw) + size - 1) \div size
PageOf(raw, size, k) ==
    SubSeq(raw, (k - 1) * size + 1, Min(k * size, Len(raw)))

\* dispatch_next_decision is called and poll_decision makes its first
\* poller(): _repeated_poller with the default budget
PollDecision ==
    /\ dpoll.pc = "idle"
    /\ \E raw \in RawHistories, size \in {1, 2} :
           dpoll' = [NoPoll EXCEPT
                        !.pc = "poll", !.raw = raw, !.size = size,
                        !.last_event_id =
                            IF \E i \in DOMAIN raw :
                                   raw[i] = "DecisionTaskCompleted"
                            THEN 1 ELSE 0]
    /\ poller' = _repeated_poller_enter(-1)
    /\ UNCHANGED <<dresp, dround>>
    /\ PollFrame

\* What dispatch_next_decision comes to once the generator all_events has
\* ended, cut short or not: _decision_response raises, or the response is
\* handed to the decision maker (every history here is of a registered
\* workflow)
Dispatched(d, cut) ==
    LET dc == [all_events |-> d.events, last_event_id |-> d.last_event_id]
        exc == _decision_response_raises(dc)
    IN  [d EXCEPT !.pc = "done", !.cut = cut, !.raises = exc,
                  !.called = exc = "none",
                  !.returned = IF exc = "none" THEN "decision_maker"
                               ELSE "none"]

\* One poll of the running _repeated_poller.  When it returns a response,
\* result_factory = _decision_page makes the page, or raises; when it
\* returns None (a further page only) the generator returns.
PollTurn ==
    /\ dpoll.pc = "poll"
    /\ poller.pc = "loop"
    /\ Len(poller.outcomes) < MaxAttempts
    /\ \E o \in PollOutcomes :
        LET p == _repeated_poller(poller, o)
            events == PageOf(dpoll.raw, dpoll.size, dpoll.fetched + 1)
        IN  /\ poller' = p
            /\ dpoll' =
                   IF p.pc = "loop" THEN dpoll
                   ELSE IF p.result = "None" THEN Dispatched(dpoll, TRUE)
                   ELSE IF _decision_page_raises(events) # "none"
                   THEN [dpoll EXCEPT
                            !.pc = "done",
                            !.raises = _decision_page_raises(events)]
                   ELSE [dpoll EXCEPT
                            !.pc = "page",
                            !.fetched = @ + 1,
                            !.events = @ \o _decision_page(events)]
    /\ UNCHANGED <<dresp, dround>>
    /\ PollFrame

\* all_events(): the page's events were yielded; the consumer
\* (tuple(all_events) on a first run, the search for decision_completed
\* otherwise) asks for more
PageUsedUp ==
    /\ dpoll.pc = "page"
    /\ IF /\ dpoll.last_event_id # 0
          /\ FirstCompleted(dpoll.events) # 0
       THEN dpoll' = Dispatched(dpoll, FALSE) /\ UNCHANGED poller
       ELSE IF dpoll.fetched = PagesOf(dpoll.raw, dpoll.size)
       THEN dpoll' = Dispatched(dpoll, FALSE) /\ UNCHANGED poller
       ELSE /\ dpoll' = [dpoll EXCEPT !.pc = "poll"]
            /\ poller' = _repeated_poller_enter(PageRetryBudget)
    /\ UNCHANGED <<dresp, dround>>
    /\ PollFrame

NextPoll == PollDecision \/ PollTurn \/ PageUsedUp

SpecPoll == InitClient /\ [][NextPoll]_vars

-----------------------------------------------------------------------------
(***************************************************************************)
(* The decision rounds of one workflow execution (flowy/swf.py): the       *)
(* Decision over the new events of each round, and the event-to-call map   *)
(* and global context that JSONDecisionContext and DecisionData hand from  *)
(* one round to the next through the execution context.  The decision      *)
(* maker queues at most one activity at a time; the service schedules it   *)
(* and reports how it ended.                                               *)
(***************************************************************************)

\* The keys of a Python dict: the int 5 and the str '5' are different keys
IntKey(n) == [type |-> "int", text |-> str(n)]
StrKey(text) == [type |-> "str", text |-> text]

\* d[k] raises KeyError
dict_get_raises(d, k) == ~\E i \in DOMAIN d : d[i][1] = k

\* d[k]
dict_get(d, k) == d[CHOOSE i \in DOMAIN d : d[i][1] = k][2]

\* json.dumps of the four dicts, the event map being the only one with
\* entries: a key of a JSON object is a string, an int key is written as
\* its digits
json_dumps_events(event_to_call_id) ==
    <<"[", "{">>
        \o json_items([i \in DOMAIN event_to_call_id |->
                          <<event_to_call_id[i][1].text,
                            event_to_call_id[i][2]>>])
        \o <<"}", ",", "{", "}", ",", "{", "}", ",", "{", "}", "]">>

\* json.loads: the first of the four dicts; its keys are str
json_loads_events(json_data) ==
    LET items == json_parse(SubSeq(json_data, 3, Len(json_data) - 11))
    IN  [i \in DOMAIN items |-> <<StrKey(items[i][1]), items[i][2]>>]

\* JSONDecisionContext(context): <<_event_to_call_id, _global_context>>
JSONDecisionContext_events(context) ==
    IF context = None THEN <<<<>>, None>>
    ELSE <<json_loads_events(_str_deconcat(context)[1]),
           _str_deconcat(context)[2]>>

\* Decision.__init__: `for event in new_events: self._internal_update(event)`
\* over _internal_activity_scheduled's
\* map_event_to_call(event.event_id, event.call_id)
RECURSIVE _internal_update(_, _)
_internal_update(event_to_call_id, new_events) ==
    IF new_events = <<>> THEN event_to_call_id
    ELSE _internal_update(
             IF new_events[1].cls = "activity_scheduled"
             THEN dict_set(event_to_call_id, IntKey(new_events[1].ident),
                           new_events[1].data)
             ELSE event_to_call_id,
             Tail(new_events))

\* Decision.dispatch_new_events(obj): the handler calls made up to the
\* first event whose event_to_call(event.event_id) raises KeyError
RECURSIVE dispatch_new_events(_, _)
dispatch_new_events(event_to_call_id, new_events) ==
    IF new_events = <<>> THEN <<>>
    ELSE IF dict_get_raises(event_to_call_id, IntKey(new_events[1].ident))
    THEN <<>>
    ELSE <<<<new_events[1].cls,
             dict_get(event_to_call_id, IntKey(new_events[1].ident))>>>>
             \o dispatch_new_events(event_to_call_id, Tail(new_events))

dispatch_new_events_raises(event_to_call_id, new_events) ==
    IF \E i \in DOMAIN new_events :
           dict_get_raises(event_to_call_id, IntKey(new_events[i].ident))
    THEN KeyError ELSE "none"

\* JSONDecisionContext.serialize(new_global_context) inside
\* DecisionData.serialize(new_context)
Decision_serialize(d, new_global_context) ==
    _str_concat(d._input,
                _str_concat(json_dumps_events(d._event_to_call_id),
                            IF new_global_context # None
                            THEN new_global_context
                            ELSE d._global_context))

ActivityEnds ==
    {"activity_completed", "activity_failed", "activity_timedout"}

\* What the service can report to a round: the ActivityTaskScheduled event
\* of the activity the round before asked for, and the end of an activity
\* that is scheduled.  <<new events, the activity afterwards>>
ServiceReports(activity, next_id) ==
    LET scheduled == EventObject("activity_scheduled", next_id, activity.c)
    IN  CASE activity.state = "none" -> {<<<<>>, activity>>}
          [] activity.state = "decided" ->
                 {<<<<scheduled>>,
                    [activity EXCEPT !.state = "scheduled", !.e = next_id]>>}
                 \cup {<<<<scheduled, EventObject(end, next_id, None)>>,
                         NoActivity>> : end \in ActivityEnds}
          [] activity.state = "scheduled" ->
                 {<<<<>>, activity>>}
                 \cup {<<<<EventObject(end, activity.e, None)>>,
                         NoActivity>> : end \in ActivityEnds}

RoundFrame ==
    /\ UNCHANGED <<poller, dpoll, dresp>>
    /\ PollFrame

\* start_workflow: the execution starts with its input
ExecutionStarted ==
    /\ dround.pc = "idle"
    /\ \E input \in ClientInputs :
           dround' = [dround EXCEPT !.pc = "open", !.input = input]
    /\ RoundFrame

\* Client.dispatch_next_decision for the next round: DecisionData,
\* JSONDecisionContext, Decision(client, context, new_events), and the
\* decision maker is called with data.input
RoundDispatched ==
    /\ dround.pc = "open"
    /\ dround.rounds < MaxRounds
    /\ \E report \in ServiceReports(dround.activity, dround.next_id) :
        LET first_run == dround.context = None
            data == DecisionData(IF first_run THEN dround.input
                                 ELSE dround.context, first_run)
            context == JSONDecisionContext_events(data[2])
        IN  dround' =
                [dround EXCEPT
                    !.pc = "deciding",
                    !.rounds = @ + 1,
                    !.activity = report[2],
                    !.next_id = @ + Len(report[1]),
                    !.restored = context,
                    !._input = data[1],
                    !._event_to_call_id =
                        _internal_update(context[1], report[1]),
                    !._global_context = context[2],
                    !.new_events = report[1],
                    !.queued = FALSE,
                    !.dispatched = <<>>,
                    !.raises = "none"]
    /\ RoundFrame

\* The decision maker calls decision.dispatch_new_events(obj), obj having
\* every handler; a KeyError leaves the decision maker
RoundDispatchNewEvents ==
    /\ dround.pc = "deciding"
    /\ dround' =
           [dround EXCEPT
               !.pc = IF dispatch_new_events_raises(
                             dround._event_to_call_id, dround.new_events)
                             = "none"
                      THEN "dispatched" ELSE "raised",
               !.dispatched = dispatch_new_events(dround._event_to_call_id,
                                                  dround.new_events),
               !.raises = dispatch_new_events_raises(
                              dround._event_to_call_id, dround.new_events)]
    /\ RoundFrame

\* The decision maker calls decision.queue_activity(call_id, ...)
RoundQueueActivity ==
    /\ dround.pc \in {"deciding", "dispatched"}
    /\ dround.activity.state = "none"
    /\ ~dround.queued
    /\ dround' = [dround EXCEPT !.queued = TRUE]
    /\ RoundFrame

\* The decision maker ends the round with
\* decision.schedule_queued(context), which writes the serialized context
\* into the execution context of the decision.  written is what was in
\* memory then; persisted holds the <<event id, call id>> of the ActivityTaskScheduled
\* events of the rounds that ended so.
RoundScheduleQueued ==
    /\ dround.pc \in {"deciding", "dispatched"}
    /\ \E context \in GlobalContexts \cup {None}, call_id \in CallIds :
           dround' =
               [dround EXCEPT
                   !.pc = "open",
                   !.context = Decision_serialize(dround, context),
                   !.written =
                       <<dround._event_to_call_id,
                         IF context # None THEN context
                         ELSE dround._global_context>>,
                   !.persisted =
                       @ \cup {<<dround.new_events[i].ident,
                                 dround.new_events[i].data>> :
                                 i \in {j \in DOMAIN dround.new_events :
                                     dround.new_events[j].cls
                                         = "activity_scheduled"}},
                   !.activity =
                       IF dround.queued
                       THEN [state |-> "decided", e |-> 0, c |-> call_id]
                       ELSE @]
    /\ RoundFrame

NextEvents ==
    \/ ExecutionStarted
    \/ RoundDispatched
    \/ RoundDispatchNewEvents
    \/ RoundQueueActivity
    \/ RoundScheduleQueued

SpecEvents == InitClient /\ [][NextEvents]_vars

-----------------------------------------------------------------------------
(* Properties of the projector, under SpecProj *)

Range(f) == {f[i] : i \in DOMAIN f}

Terminated == Keys(results) \cup Keys(errors) \cup timedout

\* C1: in every projected state no call-key is both in running and in
\* results, errors or timedout, none is a key of both results and errors,
\* and none is both in timedout and a key of results.
C1_Disjoint ==
    perr = "none" =>
        /\ running \cap Terminated = {}
        /\ Keys(results) \cap Keys(errors) = {}
        /\ timedout \cap Keys(results) = {}

\* C2: in every projected state order is a permutation of the keys of
\* results, the keys of errors and timedout: each occurs exactly once and
\* order holds nothing else.
C2_OrderPermutation ==
    perr = "none" =>
        /\ Range(order) = Terminated
        /\ Len(order) = Cardinality(Terminated)

\* C3 as stated: every key of results or errors and every member of
\* timedout was added to running by an earlier event of the history.
C3_AllWereRunning ==
    perr = "none" => Terminated \subseteq everRunning

ResolvingEvents == {"ActivityTaskCompleted", "ActivityTaskFailed",
                    "ActivityTaskTimedOut", "ChildWorkflowExecutionCompleted",
                    "ChildWorkflowExecutionFailed",
                    "ChildWorkflowExecutionTimedOut"}

RejectingEvents == {"ScheduleActivityTaskFailed",
                    "StartChildWorkflowExecutionFailed"}

\* C3 as amended: a completion, failure or timeout event that is projected
\* records a call-key that an earlier event added to running and that is in
\* running at that moment, and removes it from running; a rejection event
\* (ScheduleActivityTaskFailed, StartChildWorkflowExecutionFailed) records
\* its call-key in errors and leaves running as it is, whether or not the
\* key was ever in it.
C3_ResolvedWereRunning ==
    [][/\ (eventId' # eventId /\ perr' = "none"
              /\ e'.eventType \in ResolvingEvents) =>
                 /\ id' \in everRunning
                 /\ id' \in running
                 /\ id' \notin running'
                 /\ id' \in Keys(results') \cup Keys(errors') \cup timedout'
                 /\ order' = Append(order, id')
       /\ (eventId' # eventId /\ e'.eventType \in RejectingEvents) =>
                 /\ perr' = "none"
                 /\ running' = running
                 /\ id' \in Keys(errors')]_vars

\* C3's case: a failure event has been projected for a key that was running,
\* while errors also holds a rejected key that never was.
C3_Witness ==
    /\ perr = "none"
    /\ e.eventType = "ChildWorkflowExecutionFailed"
    /\ id \in Keys(errors) /\ id \in everRunning
    /\ \E k \in Keys(errors) : k \notin everRunning

\* C10: once the history holds TimerStarted and then TimerFired for "k:t",
\* the projection succeeds and timer_ready(k) is true on the projected
\* context.
C10_FiredTimerIsReady ==
    /\ e.eventType = "TimerStarted" => perr = "none"
    /\ (e.eventType = "TimerFired" /\ perr = "none") =>
           \A k \in CallKeys : _timer_key(k) = e.name => timer_ready(k) = TRUE

-----------------------------------------------------------------------------
(* Properties of the context, under SpecCtx *)

TerminalOps == {"fail", "finish", "restart"}

TerminalType(op) ==
    CASE op = "fail" -> "FailWorkflowExecution"
      [] op = "finish" -> "CompleteWorkflowExecution"
      [] op = "restart" -> "ContinueAsNewWorkflowExecution"

\* C5: whatever calls are made on one context, the service is answered at
\* most once for its task token, and the first flush (direct, or through
\* fail, finish or a restart that does not raise) is the call that answers.
C5_RespondAtMostOnce ==
    /\ Len(sent) <= 1
    /\ closed <=> Len(sent) = 1
    /\ \A i \in DOMAIN sent : sent[i].task_token = Token
    /\ call.op \in {"flush", "fail", "finish"} => Len(sent) = 1
    /\ (call.op = "restart" /\ raised = "none") => Len(sent) = 1

\* C5's case: flush was called on a context that had already answered.
C5_Witness ==
    /\ call.op = "flush" /\ call.wasClosed
    /\ Len(sent) = 1

\* C6: fail, finish or restart on a context that is not closed submits a
\* batch of exactly one decision, the terminal one, whatever had been
\* accumulated (a restart with an invalid child policy raises and submits
\* nothing).
C6_TerminalBatchIsSingle ==
    (call.op \in TerminalOps /\ ~call.wasClosed) =>
        \/ call.op = "restart" /\ raised = ValueError /\ sent = <<>>
        \/ /\ raised = "none"
           /\ Len(sent) = 1
           /\ Len(sent[1].decisions) = 1
           /\ sent[1].decisions[1].decisionType = TerminalType(call.op)

\* C6's case: fail was called with two schedule decisions accumulated.
C6_Witness ==
    /\ call.op = "fail" /\ ~call.wasClosed
    /\ Len(call.before) = 2
    /\ Len(sent) = 1

\* C7 as stated: on a closed context every call sends nothing and leaves the
\* decision buffer and the closed flag as they are.
C7_ClosedCallsAreNoOps ==
    [][closed => (sent' = sent /\ decisions' = decisions /\ closed' = closed)]_vars

\* C7 as amended: on a closed context every call sends nothing and leaves
\* the context closed.
C7_ClosedCallsSendNothing ==
    [][closed => (sent' = sent /\ closed')]_vars

\* C7's case: a terminal call and a schedule call were made on a closed
\* context.
C7_Witness ==
    /\ call.wasClosed
    /\ call.op \in {"finish", "schedule_timer"}
    /\ call.n = MaxCalls

\* C8: when the answer to the service fails with a transport error, the
\* caller sees no exception, the context is closed, and the answer is never
\* sent again.
C8_TransportErrorSwallowed ==
    (\E i \in DOMAIN sent : ~sent[i].ok) =>
        /\ closed
        /\ Len(sent) = 1
        /\ raised # SWFResponseError

\* C8's case: the answer failed and flush was called again afterwards.
C8_Witness ==
    /\ Len(sent) = 1 /\ ~sent[1].ok
    /\ call.op = "flush" /\ call.wasClosed

\* C9: a proxy's schedule for call-key k with delay d > 0, the timer of k not
\* having fired, appends one start_timer decision with timer id "k:t" and
\* timeout d, and nothing else.
C9_DelayStartsTimer ==
    (call.op \in {"SWFActivityProxy.schedule", "SWFWorkflowProxy.schedule"}
         /\ call.delay > 0) =>
        /\ raised = "none"
        /\ decisions = Append(call.before,
               Layer1Decision("StartTimer", None, None, _timer_key(call.key), None,
                        str(call.delay), None))

-----------------------------------------------------------------------------
(* Properties of a replayed run, under SpecReplay *)

\* C4: running the same workflow twice over the same history submits the
\* same decision batch: the same decisions with the same ids in the same
\* order.
C4_Deterministic ==
    (run = 2 /\ RunDone) =>
        /\ Len(sent) = 2
        /\ sent[1].decisions = sent[2].decisions

-----------------------------------------------------------------------------
(* Properties of the pager and of the worker loop, under SpecWorker *)

\* The step fetched the next page of the history.
PageFetched == PageWanted /\ pages' = pages + 1

\* The step was an attempt of poll_response_page that raised SWFResponseError.
AttemptFailed == PageWanted /\ fetch'.failed = fetch.failed + 1

\* C11: one call of poll_response_page polls at most 7 times: an attempt
\* that answers ends the call at once with the page and no fault, a failed
\* attempt before the seventh is followed by another attempt, and
\* _PaginationError is raised only by the seventh failed attempt in a row.
C11_BoundedPageRetries ==
    [][/\ fetch'.failed <= PageRetries
       /\ PageFetched =>
              /\ fetch.failed < PageRetries
              /\ fetch'.outcome = "page"
              /\ wpc' = wpc /\ wexc' = "none"
       /\ (AttemptFailed /\ fetch'.failed < PageRetries) =>
              /\ fetch'.outcome = "none"
              /\ PageWanted'
              /\ page' = page
       /\ (PageWanted /\ fetch'.outcome = _PaginationError) =>
              /\ AttemptFailed
              /\ fetch'.failed = PageRetries
              /\ ~PageWanted']_vars

C11_Witness ==
    /\ fetch.outcome = _PaginationError
    /\ fetch.failed = PageRetries
    /\ pages = 1

\* The locals of poll_next_decision hold nothing of an earlier task.
NothingProjected ==
    /\ running = {} /\ timedout = {}
    /\ results = <<>> /\ errors = <<>>
    /\ order = <<>>
    /\ event2call = <<>>
    /\ perr = "none"

\* C12: whenever poll_response_page has raised _PaginationError, wherever the
\* events generator was asked for an event, no exception has left the worker
\* loop, the step that raised it submitted nothing, and the engine is about
\* to poll for a new task, which it does with nothing projected.
C12_PaginationFaultRestarts ==
    /\ [](fetch.outcome = _PaginationError => (wpc = "retry" /\ wexc = "none"))
    /\ [](wpc = "poll_first" => NothingProjected)
    /\ [][(PageWanted /\ fetch'.outcome = _PaginationError) => sent' = sent]_vars

\* The response holds a task token that is not empty.
HasToken(r) == r.taskToken \notin {None, <<>>}

\* C13: a step of poll_first_page either stays in its loop and lets no
\* exception out (the poll raised a transport error or brought no token) or
\* returns a response whose taskToken is not empty; what poll_next_decision
\* works on always has such a token; and once the service answers with a
\* task, poll_first_page ends (unless the worker is interrupted first).
C13_FirstPageHasToken ==
    /\ [][wpc = "poll_first" =>
              \/ wpc' = "poll_first" /\ wexc' = "none"
              \/ wpc' = "first_event" /\ wexc' = "none" /\ HasToken(page')
              \/ wpc' = "returned" /\ wexc' = "none"]_vars
    /\ [](wpc \in {"first_event", "parse"} => HasToken(page))
    /\ (wpc = "poll_first") ~> (wpc \in {"first_event", "returned"})

C13_Witness ==
    /\ wpc = "first_event"
    /\ polls = MaxPolls + 1
    /\ HasToken(page)

\* C16: when the context handed to the registry names a (name, version)
\* that is not registered, the step submits no decision, lets no exception
\* out of the worker loop and leaves the worker at the top of its loop,
\* about to poll again.
C16_UnknownWorkflowSkipped ==
    [][(wpc = "run" /\ ctx_key \notin RegistryKeys) =>
           /\ sent' = sent
           /\ wexc' = "none"
           /\ wpc' \in {"run", "loop"}]_vars

\* The event breaks an invariant of the projection: a completion, failure or
\* time-out of a call-key that is not in running or of a scheduledEventId
\* that no event recorded, or a fired timer (no timer's key is in running).
BreaksInvariant(ev) ==
    \/ /\ ev.eventType \in {"ActivityTaskCompleted", "ActivityTaskFailed",
                            "ActivityTaskTimedOut"}
       /\ \/ ev.scheduledEventId \notin DOMAIN event2call
          \/ event2call[ev.scheduledEventId] \notin running
    \/ /\ ev.eventType \in {"ChildWorkflowExecutionCompleted",
                            "ChildWorkflowExecutionFailed",
                            "ChildWorkflowExecutionTimedOut"}
       /\ _subworkflow_call_key(ev.name) \notin running
    \/ ev.eventType = "TimerFired"

\* C17: an event that breaks an invariant of the projection ends
\* parse_events with an exception and projects nothing; after that no
\* context is made of the task and nothing is submitted for it, the
\* exception leaving poll_next_decision.
C17_BrokenHistoryIsFatal ==
    /\ [][(wpc = "parse" /\ eventId' = eventId + 1 /\ BreaksInvariant(e')) =>
              /\ perr' \in {KeyError, NameError}
              /\ UNCHANGED <<running, timedout, results, errors, order>>]_vars
    /\ [][perr # "none" =>
              /\ sent' = sent
              /\ perr' = perr
              /\ wpc' = "parse" \/ (wpc' = "crashed" /\ wexc' = perr)]_vars

\* An activity completion with an unknown scheduledEventId ended the worker.
C17_Witness ==
    /\ wpc = "crashed"
    /\ wexc = KeyError
    /\ e.eventType = "ActivityTaskCompleted"
    /\ sent = <<>>

-----------------------------------------------------------------------------
(* Properties of the registration, under SpecStart *)

\* The four remote defaults equal the locally converted values.
SameDefaults(cfg, w) ==
    /\ w.defaultTaskList = _str_or_none(cfg.d_t_l)
    /\ w.defaultTaskStartToCloseTimeout = _timer_encode(cfg.d_d_d)
    /\ w.defaultExecutionStartToCloseTimeout = _timer_encode(cfg.d_w_d)
    /\ w.defaultChildPolicy =
           (IF cfg.d_c_p = None THEN None ELSE upper(cfg.d_c_p))

\* C14: a workflow type that registers as new is not checked for
\* compatibility and its registration succeeds; for one that exists already
\* the remote configuration is fetched, and once it is there registration
\* succeeds exactly when the four remote defaults equal the locally converted
\* values, and raises the registration fault otherwise.
C14_CompatibleIffSameDefaults ==
    /\ reg.answer = "registered" =>
           ~reg.described /\ reg.outcome = "registered"
    /\ reg.answer = SWFTypeAlreadyExistsError => reg.described
    /\ (reg.described /\ reg.fault # "describe_workflow_type") =>
           /\ SameDefaults(reg.cfg, reg.remote) <=> reg.outcome = "compatible"
           /\ ~SameDefaults(reg.cfg, reg.remote)
                  <=> reg.outcome = _RegistrationError

\* Compatible through the conversion: 'abandon' against ABANDON, '09' against '9'
C14_Witness ==
    /\ reg.outcome = "compatible"
    /\ reg.cfg.d_c_p # None /\ reg.cfg.d_c_p # reg.remote.defaultChildPolicy
    /\ reg.cfg.d_d_d # None
    /\ reg.cfg.d_d_d # reg.remote.defaultTaskStartToCloseTimeout

\* C15: a transport error of register_workflow_type other than "already
\* exists", or one of describe_workflow_type, ends the registration with the
\* registration fault; and after a registration fault the worker has exited
\* with status 1 without a single call of poll_for_decision_task.
C15_TransportErrorExits ==
    /\ reg.answer = SWFResponseError => reg.outcome = _RegistrationError
    /\ reg.fault = "describe_workflow_type" => reg.outcome = _RegistrationError
    /\ reg.outcome = _RegistrationError =>
           /\ wpc = "exited"
           /\ exit_code = 1
           /\ tasks = 0 /\ polls = 0
    /\ exit_code = 1 => reg.outcome = _RegistrationError

\* describe_workflow_type failed for the second workflow of the registry
C15_Witness ==
    /\ reg.fault = "describe_workflow_type"
    /\ exit_code = 1
    /\ todo = MaxWorkflows - 2

-----------------------------------------------------------------------------
(* Properties of the size caps, under SpecSize *)

\* The cap of the payload of a decision
Cap(d) ==
    CASE d.decisionType \in {"ScheduleActivityTask",
                             "StartChildWorkflowExecution",
                             "ContinueAsNewWorkflowExecution"} -> _INPUT_SIZE
      [] d.decisionType = "CompleteWorkflowExecution" -> _RESULT_SIZE
      [] d.decisionType = "FailWorkflowExecution" -> _REASON_SIZE

\* C18: every string handed to the service is within its cap: the input of
\* every schedule-activity, start-child-workflow and continue-as-new decision
\* and of every start_workflow_execution call has at most 32768 characters,
\* every result at most 32768, every reason at most 256 and the identity at
\* most 256, whatever the length of the payload given.
C18_SubmittedStringsWithinCaps ==
    /\ \A i \in DOMAIN sent : \A j \in DOMAIN sent[i].decisions :
           Len(sent[i].decisions[j].payload) <= Cap(sent[i].decisions[j])
    /\ \A i \in DOMAIN started : Len(started[i].input) <= _INPUT_SIZE
    /\ identity # None => Len(identity) <= _IDENTITY_SIZE

\* d is the first n characters of s (s is d and then the rest of s), and s
\* itself when s has no more than n
FirstOf(d, s, n) ==
    /\ Len(d) = Min(Len(s), n)
    /\ d \o SubSeq(s, Len(d) + 1, Len(s)) = s
    /\ Len(s) <= n => d = s

\* The decision the last call submitted
Submitted == sent[Len(sent)].decisions[1]

\* C19: fail submits the first 256 characters of its reason, finish the
\* first 32768 of its result and restart the first 32768 of its input, as
\* the only decision of the batch; a payload within the cap is submitted
\* unchanged.
C19_TerminalPayloadCut ==
    (call.op \in {"fail", "finish", "restart"} /\ raised = "none") =>
        /\ Len(sent) = 1
        /\ Len(sent[1].decisions) = 1
        /\ call.op = "fail" =>
               /\ Submitted.decisionType = "FailWorkflowExecution"
               /\ FirstOf(Submitted.payload, arg, _REASON_SIZE)
        /\ call.op = "finish" =>
               /\ Submitted.decisionType = "CompleteWorkflowExecution"
               /\ FirstOf(Submitted.payload, arg, _RESULT_SIZE)
        /\ call.op = "restart" =>
               /\ Submitted.decisionType = "ContinueAsNewWorkflowExecution"
               /\ FirstOf(Submitted.payload, arg, _INPUT_SIZE)

\* fail was given one character more than the cap, after a schedule
C19_Witness ==
    /\ call.op = "fail"
    /\ Len(arg) = _REASON_SIZE + 1
    /\ Len(sent) = 1
    /\ Len(sent[1].decisions[1].payload) = _REASON_SIZE
    /\ call.before # <<>>

-----------------------------------------------------------------------------
(* Properties of the key conversions, under SpecKey *)

\* C20: the call-key taken out of a sub-workflow key is the call-key the
\* sub-workflow key was made of, for every call-key, with or without '-'.
C20_KeyRoundTrip ==
    rt.step = "extracted" => rt.back = rt.call_key

-----------------------------------------------------------------------------
(* Properties of the context blob, under SpecBlob *)

\* C21: taking apart what _str_concat made of a and b gives a and b back,
\* for every string a and every b that is a string or absent.
C21_BlobRoundTrip ==
    blob.step = "deconcat" => blob.out = <<blob.str1, blob.str2>>

\* C21, amended: the same for every b that is absent or not empty; an
\* empty b comes back as absent.
C21_BlobRoundTripButEmptyTail ==
    blob.step = "deconcat" =>
        /\ blob.out[1] = blob.str1
        /\ blob.out[2] = (IF blob.str2 = <<>> THEN None ELSE blob.str2)

\* a holds a space and a digit, b is a string
C21_Witness ==
    /\ blob.step = "deconcat"
    /\ blob.str1 = <<" ", "1">>
    /\ blob.str2 = <<"1", " ">>
    /\ blob.out = <<blob.str1, blob.str2>>

-----------------------------------------------------------------------------
(* Properties of the accumulated batch, under SpecCtx *)

\* d is the decision that the schedule call c put into the buffer.
IssuedBy(d, c) ==
    CASE c.op = "schedule_timer" ->
             d.decisionType = "StartTimer" /\ d.id = _timer_key(c.key)
      [] c.op = "schedule_activity" ->
             d.decisionType = "ScheduleActivityTask" /\ d.id = c.key
      [] c.op = "schedule_workflow" ->
             /\ d.decisionType = "StartChildWorkflowExecution"
             /\ \E u \in UUIDs : d.id = _subworkflow_key(u, c.key)
      [] OTHER -> FALSE

\* C22: the batch that flush submits for a decision run that made only
\* schedule calls holds one decision for each call of schedule_timer,
\* schedule_activity and schedule_workflow, in the order of the calls:
\* none is dropped, doubled or moved.
C22_BatchKeepsIssueOrder ==
    (/\ call.op = "flush"
     /\ ~call.wasClosed
     /\ \A i \in DOMAIN issued : issued[i].op # "restart") =>
        /\ Len(sent[Len(sent)].decisions) = Len(issued)
        /\ \A i \in DOMAIN issued :
               IssuedBy(sent[Len(sent)].decisions[i], issued[i])

\* A timer and then an activity were scheduled and flushed.
C22_Witness ==
    /\ call.op = "flush"
    /\ ~call.wasClosed
    /\ Len(issued) = 2
    /\ issued[1].op = "schedule_timer"
    /\ issued[2].op = "schedule_activity"
    /\ Len(sent[1].decisions) = 2

-----------------------------------------------------------------------------
(* Properties of restart's child policy, under SpecCtx *)

\* C24: restart on a context whose child policy is valid once written in
\* upper case does not raise ValueError: it submits the continue-as-new
\* decision with the policy in upper case, as registration does.
C24_RestartNormalizesPolicy ==
    (/\ call.op = "restart"
     /\ ~call.wasClosed
     /\ upper(child_policy) \in _CHILD_POLICY) =>
        /\ raised # ValueError
        /\ sent # <<>>
        /\ sent[Len(sent)].decisions[1].childPolicy = upper(child_policy)

-----------------------------------------------------------------------------
(* Properties of the termination events, under SpecProj *)

ActivityTerminations ==
    {"ActivityTaskCompleted", "ActivityTaskFailed", "ActivityTaskTimedOut"}

ChildTerminations ==
    {"ChildWorkflowExecutionCompleted", "ChildWorkflowExecutionFailed",
     "ChildWorkflowExecutionTimedOut"}

\* What the event ev projected just now leaves behind for the running
\* call-key k: k is gone from running, its outcome is recorded under k and k
\* is the new last element of order, behind all that was there.
TerminatedBy(ev, k) ==
    /\ perr' = "none"
    /\ running' = running \ {k}
    /\ order' = Append(order, k)
    /\ CASE ev.eventType \in {"ActivityTaskCompleted",
                              "ChildWorkflowExecutionCompleted"} ->
                k \in DOMAIN results' /\ results'[k] = ev.payload
         [] ev.eventType \in {"ActivityTaskFailed",
                              "ChildWorkflowExecutionFailed"} ->
                k \in DOMAIN errors' /\ errors'[k] = ev.payload
         [] OTHER -> k \in timedout'

\* C28: the projection of an ActivityTaskCompleted, ActivityTaskFailed or
\* ActivityTaskTimedOut event whose scheduledEventId an earlier
\* ActivityTaskScheduled event recorded with the running activity id k
\* removes k from running, records the result, the reason or the timeout
\* under k and appends k to order as its last element; the child-workflow
\* events do the same with the call-key extracted from the workflow id.
C28_TerminationRecorded ==
    [][eventId' = eventId + 1 =>
        /\ (/\ e'.eventType \in ActivityTerminations
            /\ e'.scheduledEventId \in DOMAIN event2call
            /\ event2call[e'.scheduledEventId] \in running) =>
               TerminatedBy(e', event2call[e'.scheduledEventId])
        /\ (/\ e'.eventType \in ChildTerminations
            /\ _subworkflow_call_key(e'.name) \in running) =>
               TerminatedBy(e', _subworkflow_call_key(e'.name))]_vars

\* Two activities were scheduled; the second completed and then the first
\* timed out: the one that ended first stands first in order.
C28_Witness ==
    /\ e.eventType = "ActivityTaskTimedOut"
    /\ perr = "none"
    /\ order = <<<<"1">>, <<"0">>>>
    /\ <<"1">> \in DOMAIN results
    /\ timedout = {<<"0">>}
    /\ running = {}

-----------------------------------------------------------------------------
(* Properties of the rejection events, under SpecProj *)

\* The call-key a rejection event is about
RejectedKey(ev) ==
    IF ev.eventType = "ScheduleActivityTaskFailed" THEN ev.name
    ELSE _subworkflow_call_key(ev.name)

\* C29: the projection of a ScheduleActivityTaskFailed or
\* StartChildWorkflowExecutionFailed event for the call-key k records
\* errors[k] = cause and appends k to order, and leaves running, results,
\* timedout and event2call as they were, whether k is in running or not.
C29_RejectionTouchesErrorsAndOrder ==
    [][(/\ eventId' = eventId + 1
        /\ e'.eventType \in {"ScheduleActivityTaskFailed",
                             "StartChildWorkflowExecutionFailed"}) =>
            /\ perr' = "none"
            /\ RejectedKey(e') \in DOMAIN errors'
            /\ errors'[RejectedKey(e')] = e'.payload
            /\ \A k \in DOMAIN errors \ {RejectedKey(e')} :
                   k \in DOMAIN errors' /\ errors'[k] = errors[k]
            /\ order' = Append(order, RejectedKey(e'))
            /\ UNCHANGED <<running, results, timedout, event2call>>]_vars

\* A rejection was projected for a call-key that is running, and one for a
\* call-key that never ran.
C29_Witness ==
    /\ e.eventType = "StartChildWorkflowExecutionFailed"
    /\ perr = "none"
    /\ id \in running
    /\ DOMAIN errors = CallKeys
    /\ \E k \in CallKeys : k \notin everRunning

-----------------------------------------------------------------------------
(* Properties of the delay timers in the projection, under SpecProj *)

\* C30: once TimerStarted with the timer id "k:t" was projected and the
\* matching TimerFired was not, the projection goes on and the delayed call
\* k counts as running.
C30_PendingTimerIsRunning ==
    e.eventType = "TimerStarted" =>
        /\ perr = "none"
        /\ \E k \in CallKeys : e.name = _timer_key(k) /\ k \in running

-----------------------------------------------------------------------------
(* Properties of the Client over SWFClient, under SpecClient *)

\* C23: every decision a response carries was queued while the task of the
\* response's token was in hand, however the tasks before it ended.
C23_BufferPrivateToTask ==
    \A i \in DOMAIN responded.decisions :
        responded.decisions[i].during = responded.task_token

\* C25: the registry holds a decision maker only for a key whose
\* register_workflow returned True, which it does only for a type the service
\* took or reported with the same defaults; a decision maker runs only for a
\* polled (name, version) it is registered for; and a dispatch that polls
\* nothing or a key without decision maker returns None, runs no decision
\* maker and sends no response.
C25_OnlyRegisteredMakersRun ==
    /\ [](DOMAIN _workflow_registry \subseteq accepted)
    /\ [](decision # NoDecision =>
            /\ execution.key \in DOMAIN _workflow_registry
            /\ decision.maker = _workflow_registry[execution.key])
    /\ [](responded # NoRespond => responded.task_token \in handled)
    /\ [][(/\ returned'.op = "register_workflow"
           /\ returned'.value = "False") =>
               _workflow_registry' = _workflow_registry]_vars
    /\ [][(/\ execution'.tasks = execution.tasks + 1
           /\ execution.key \notin DOMAIN _workflow_registry) =>
               /\ decision' = NoDecision
               /\ handled' = handled
               /\ responded' = NoRespond
               /\ returned'.op = "dispatch_next_decision"
               /\ returned'.value = "None"]_vars

\* A decision maker is registered, the polled task is of another type and
\* the dispatch returned None.
C25_Witness ==
    /\ DOMAIN _workflow_registry = OwnKeys
    /\ execution.key \notin OwnKeys
    /\ execution.tasks = 1
    /\ returned.op = "dispatch_next_decision"
    /\ returned.value = "None"
    /\ responded = NoRespond
    /\ handled = {}

\* a and b hold the same entries, each as often
SameEntries(a, b) ==
    \A x \in {a[i] : i \in DOMAIN a} \cup {b[i] : i \in DOMAIN b} :
        Cardinality({i \in DOMAIN a : a[i] = x})
            = Cardinality({i \in DOMAIN b : b[i] = x})

\* C26: schedule_queued makes one respond call that carries every entry
\* queued since the schedule_queued before it, returns True when the call
\* went through and False when it raised SWFResponseError, and leaves the
\* three queues empty either way.
C26_ScheduleQueuedEmptiesQueues ==
    /\ [](returned.op = "schedule_queued" =>
            /\ responded.op = "schedule_queued"
            /\ SameEntries(responded.decisions, returned.since)
            /\ returned.value = (IF responded.ok THEN "True" ELSE "False")
            /\ _scheduled_activities = <<>>
            /\ _scheduled_workflows = <<>>
            /\ _scheduled_timers = <<>>)
    /\ [][(/\ returned'.op = "schedule_queued"
           /\ decision'.calls = decision.calls + 1) =>
               decision'.responds = decision.responds + 1]_vars

\* A schedule_queued with an activity and a timer in the queues met a
\* transport error.
C26_Witness ==
    /\ returned.op = "schedule_queued"
    /\ returned.value = "False"
    /\ ~responded.ok
    /\ Len(responded.decisions) = 2
    /\ responded.decisions[1].decisionType = "ScheduleActivityTask"
    /\ responded.decisions[2].decisionType = "StartTimer"
    /\ _scheduled_activities = <<>>
    /\ _scheduled_timers = <<>>

-----------------------------------------------------------------------------
(* Properties of the global context, under SpecRounds *)

-----------------------------------------------------------------------------
(* Properties of the lookups of a projected context, under SpecProj *)

\* C31: on a projected context, for every call-key k, result(k), error(k)
\* and timeout(k) return the recorded payload or reason with an index i such
\* that order[i] = k when k is in results, errors or timedout, and each of
\* them fails when k is not in its set.
C31_LookupsMatchTheirSets ==
    perr = "none" =>
        \A k \in CallKeys :
            /\ IF is_result(k)
               THEN /\ ~SWFContext_result_raises(k)
                    /\ SWFContext_result(k)[1] = results[k]
                    /\ order[SWFContext_result(k)[2] + 1] = k
               ELSE SWFContext_result_raises(k)
            /\ IF is_error(k)
               THEN /\ ~SWFContext_error_raises(k)
                    /\ SWFContext_error(k)[1] = errors[k]
                    /\ order[SWFContext_error(k)[2] + 1] = k
               ELSE SWFContext_error_raises(k)
            /\ IF is_timeout(k)
               THEN ~SWFContext_timeout_raises(k) /\ order[SWFContext_timeout(k) + 1] = k
               ELSE SWFContext_timeout_raises(k)

-----------------------------------------------------------------------------
(* Properties of the retry after a pagination fault, under SpecWorker *)

\* C32: every poll_next_decision, the one that retries after a pagination
\* fault included, polls with the domain and the task list the worker was
\* started with.
C32_RetryKeepsPollArguments ==
    wpc # "loop" => poll_args = <<Domain, TaskList>>

(***************************************************************************)
(* Properties of the events generator, under SpecWorker                    *)
(***************************************************************************)

\* The <<page, index>> of the events of pages of the given sizes, in page
\* order and in the order of each page
RECURSIVE PageEvents(_)
PageEvents(sizes) ==
    IF sizes = <<>> THEN <<>>
    ELSE LET front == SubSeq(sizes, 1, Len(sizes) - 1)
             last == Len(sizes)
         IN  PageEvents(front) \o [i \in 1..sizes[last] |-> <<last, i>>]

\* The events of the pages the current task has received
ReceivedEvents == PageEvents(Append(page.before, page.size))

\* C33: the events the generator hands out for a task are the events of
\* the pages received, in page order and each once: what it has yielded is
\* always the received events less those left on the current page (no page
\* is turned before it is used up), and when the
\* generator is exhausted (the context is returned) the last page names no
\* next one and every received event was yielded.  The first yielded event
\* is the one poll_next_decision takes as WorkflowExecutionStarted: the
\* projector has seen no event until a second one is yielded.  That first
\* event is the first event of the first page that holds one: with an
\* empty first page, the first of the second page when that holds one.
C33_EventsArePagesInOrder ==
    /\ Len(page.yielded) + page.events = Len(ReceivedEvents)
    /\ page.yielded = SubSeq(ReceivedEvents, 1, Len(page.yielded))
    /\ wpc = "run" =>
           /\ ~page.nextPageToken
           /\ page.yielded = ReceivedEvents
           /\ page.yielded # <<>>
    /\ wpc = "first_event" => page.yielded = <<>>
    /\ e # NoEvent => Len(page.yielded) >= 2
    /\ page.yielded # <<>> => page.yielded[1] = ReceivedEvents[1]
    /\ (/\ page.yielded # <<>>
        /\ Append(page.before, page.size)[1] = 0
        /\ Len(page.before) >= 1
        /\ Append(page.before, page.size)[2] > 0) =>
           page.yielded[1] = <<2, 1>>

\* A history of two pages with an event each was projected to its end.
C33_Witness ==
    /\ wpc = "run"
    /\ page.before = <<1>>
    /\ page.yielded = <<<<1, 1>>, <<2, 1>>>>

-----------------------------------------------------------------------------
(* The order of the batch of schedule_queued, under SpecClient *)

\* C39: the batch schedule_queued sends lists the queued activity,
\* child-workflow and timer decisions in the order in which the decision
\* maker queued them since the schedule_queued before it.
C39_BatchInQueueOrder ==
    returned.op = "schedule_queued" =>
        responded.decisions = returned.since

-----------------------------------------------------------------------------
(* Properties of _repeated_poller, under SpecPoller *)

\* The first attempt of the call that answered with a task, 0 if none did
FirstToken(outcomes) ==
    IF \E i \in DOMAIN outcomes : outcomes[i] = "token"
    THEN CHOOSE i \in DOMAIN outcomes :
             /\ outcomes[i] = "token"
             /\ \A j \in 1..(i - 1) : outcomes[j] # "token"
    ELSE 0

\* C34: a call with budget n >= 0 polls at most n + 1 times, returns the
\* result built from the first response with a non-empty task token (and
\* polls no more after it) and returns None only when none of its attempts
\* had a token; a call with the default budget -1 never returns None.
C34_PollerReturnsFirstToken ==
    poller.pc # "idle" =>
        /\ poller.budget >= 0 => Len(poller.outcomes) <= poller.budget + 1
        /\ FirstToken(poller.outcomes) \in {0, Len(poller.outcomes)}
        /\ poller.result = "result" =>
               FirstToken(poller.outcomes) = Len(poller.outcomes)
        /\ poller.result = "None" =>
               /\ poller.budget >= 0
               /\ FirstToken(poller.outcomes) = 0
        /\ FirstToken(poller.outcomes) # 0 => poller.result = "result"

-----------------------------------------------------------------------------
(* Properties of _decision_response, under SpecResponse *)

\* C36: _decision_response returns a response.  On a first run
\* (previousStartedEventId 0) new_events is every event but the
\* WorkflowExecutionStarted one, oldest first, and data is the workflow
\* input; otherwise new_events is the events after the most recent
\* DecisionTaskCompleted, oldest first, data is that event's context and
\* its startedEventId is previousStartedEventId.
C36_ResponseSplitsHistory ==
    dresp.pc = "done" =>
        LET h == dresp.history
            last == LastDecision(h)
        IN  /\ dresp.raises = "none"
            /\ dresp.response.first_run = (previousStartedEventId(h) = 0)
            /\ IF previousStartedEventId(h) = 0
               THEN /\ dresp.response.new_events = SubSeq(h, 2, Len(h))
                    /\ dresp.response.data = h[1].data
               ELSE /\ dresp.response.new_events
                           = SubSeq(h, last + 1, Len(h))
                    /\ dresp.response.data = h[last].data
                    /\ h[last].ident = previousStartedEventId(h)

-----------------------------------------------------------------------------
(* Properties of poll_decision with an unavailable page, under SpecPoll *)

\* C35: when a further page of the history could not be fetched within
\* its retries, poll_decision returns None and dispatch_next_decision
\* returns None with no decision maker called and no response sent, and
\* nothing is raised, an AssertionError least of all.
C35_UnavailablePageReturnsNone ==
    (dpoll.pc = "done" /\ dpoll.cut) =>
        /\ dpoll.raises = "none"
        /\ dpoll.raises # AssertionError
        /\ dpoll.returned = "None"
        /\ ~dpoll.called
        /\ ~dpoll.responded

-----------------------------------------------------------------------------
(* Properties of the decision rounds, under SpecEvents *)

\* C37: in every round the decision maker is handed the input of
\* WorkflowExecutionStarted, and from the second round on the context the
\* Decision starts with (event map, global context) is the one the round
\* before serialized.
C37_RoundsCarryInputAndContext ==
    dround.pc = "deciding" =>
        /\ dround._input = dround.input
        /\ dround.rounds > 1 => dround.restored = dround.written

\* C38: an ActivityTaskCompleted, ActivityTaskFailed or
\* ActivityTaskTimedOut event whose scheduledEventId is that of an
\* ActivityTaskScheduled event of an earlier round that ended with
\* schedule_queued is dispatched to its handler with the call id of that
\* event, found in the restored event-to-call map.
C38_EndResolvedThroughPersistedMap ==
    dround.pc \in {"dispatched", "raised"} =>
        \A i \in DOMAIN dround.new_events :
            \A earlier \in dround.persisted :
                (/\ dround.new_events[i].cls \in ActivityEnds
                 /\ dround.new_events[i].ident = earlier[1]) =>
                    /\ dround.raises = "none"
                    /\ dround.dispatched[i]
                           = <<dround.new_events[i].cls, earlier[2]>>

====
